---- MODULE Spec2Model ----
(***************************************************************************)
(* PulsePoint: the stale-tolerant caching and fan-out aggregation layer.   *)
(*                                                                         *)
(*   - the flat-file cache (src/src/index.tsx, the cache.ts revision that  *)
(*     returns a timestamp and that the server and the service import),    *)
(*   - the error classifier handleOctokitError,                            *)
(*   - the bounded repository scan getOrgMemberCommits,                    *)
(*   - the aggregate getOrgActivityData and the four searches,             *)
(*   - the two route handlers handleGetOrgDashboard / handleGetUserDetails.*)
(*                                                                         *)
(* Strings are TLA+ strings; keys are built by the same concatenations,    *)
(* replacements, sorts and encodings as the source.  Time is in            *)
(* milliseconds, as Date.now().                                            *)
(***************************************************************************)
EXTENDS Integers, Sequences, FiniteSets, TLC

(***************************************************************************)
(* Bounds of the model (not program constants).                            *)
(***************************************************************************)
\* number of clock advances in one behaviour
MaxTicks == 2
\* longest repository list handed to a directly called scan
MaxRepos == 6
\* longest member list the upstream returns
MaxMembers == 1
\* number of requests served by the route handlers in one behaviour
MaxRequests == 2
\* number of faults in one behaviour: failed upstream requests and failed
\* writes of a cache file
MaxFailures == 1
\* number of cache entries written by another writer in one behaviour
MaxForeignWrites == 1
\* calls of writeCache and readCache in one run of the cache directory
MaxOps == 3
\* files another program overwrites in one run
MaxTampers == 1

(***************************************************************************)
(* JavaScript null and undefined.  Where a string is expected they are the *)
(* strings Null and Undefined, where a number is expected NullNum (NaN      *)
(* included), and a nullable object or array v is the tuple <<v>>, null    *)
(* being None.                                                             *)
(***************************************************************************)
Null == "<null>"

Undefined == "<undefined>"

NullNum == 0 - 1

None == <<>>

Some(v) == <<v>>

(***************************************************************************)
(* String primitives.                                                      *)
(***************************************************************************)
\* printable ASCII in code-unit order, from U+0020 (the double quote, the
\* backslash and the backquote, which no modelled string contains, are blank); Ord is the
\* code unit
Ascii == " ! #$%&'()*+,-./0123456789:;<=>?@ABCDEFGHIJKLMNOPQRSTUVWXYZ[ ]^_ abcdefghijklmnopqrstuvwxyz{|}~"

CharAt(s, i) == SubSeq(s, i, i)

Chars == {CharAt(Ascii, i) : i \in 1..Len(Ascii)}

OrdTable == [c \in Chars |-> 31 + (CHOOSE i \in 1..Len(Ascii) : CharAt(Ascii, i) = c)]

Ord(c) == OrdTable[c]

Chr(n) == CharAt(Ascii, n - 31)

\* String.prototype.toLowerCase on ASCII
LowerTable == [c \in Chars |-> IF OrdTable[c] >= 65 /\ OrdTable[c] <= 90
                                THEN Chr(OrdTable[c] + 32) ELSE c]

LowerChar(c) == LowerTable[c]

RECURSIVE toLowerCase(_)
toLowerCase(s) ==
    IF s = "" THEN "" ELSE LowerChar(CharAt(s, 1)) \o toLowerCase(SubSeq(s, 2, Len(s)))

\* s.replace(/[-:]/g, '')
RECURSIVE StripDashColon(_)
StripDashColon(s) ==
    IF s = "" THEN ""
    ELSE (IF CharAt(s, 1) \in {"-", ":"} THEN "" ELSE CharAt(s, 1))
         \o StripDashColon(SubSeq(s, 2, Len(s)))

\* s.split(c)[0]: the part of s before the first occurrence of c
RECURSIVE SplitFirst(_, _)
SplitFirst(s, c) ==
    IF s = "" \/ CharAt(s, 1) = c THEN ""
    ELSE CharAt(s, 1) \o SplitFirst(SubSeq(s, 2, Len(s)), c)

\* s.startsWith(p)
startsWith(s, p) == Len(s) >= Len(p) /\ SubSeq(s, 1, Len(p)) = p

\* Array.prototype.join
RECURSIVE join(_, _)
join(xs, sep) ==
    IF Len(xs) = 0 THEN ""
    ELSE IF Len(xs) = 1 THEN xs[1]
    ELSE xs[1] \o sep \o join(Tail(xs), sep)

\* the default comparison of Array.prototype.sort: by UTF-16 code units
RECURSIVE StrLess(_, _)
StrLess(a, b) ==
    IF b = "" THEN FALSE
    ELSE IF a = "" THEN TRUE
    ELSE IF CharAt(a, 1) = CharAt(b, 1)
         THEN StrLess(SubSeq(a, 2, Len(a)), SubSeq(b, 2, Len(b)))
         ELSE Ord(CharAt(a, 1)) < Ord(CharAt(b, 1))

RECURSIVE InsertSorted(_, _)
InsertSorted(x, xs) ==
    IF Len(xs) = 0 THEN <<x>>
    ELSE IF StrLess(x, xs[1]) THEN <<x>> \o xs
    ELSE <<xs[1]>> \o InsertSorted(x, Tail(xs))

\* [...xs].sort()
RECURSIVE sort(_)
sort(xs) == IF Len(xs) = 0 THEN <<>> ELSE InsertSorted(xs[1], sort(Tail(xs)))

\* parseInt(s, 10) on a string: the leading decimal digits (NaN is Null)
IsDigit(c) == Ord(c) >= 48 /\ Ord(c) <= 57

RECURSIVE ParseDigits(_, _)
ParseDigits(s, acc) ==
    IF s = "" \/ ~IsDigit(CharAt(s, 1)) THEN acc
    ELSE ParseDigits(SubSeq(s, 2, Len(s)), acc * 10 + (Ord(CharAt(s, 1)) - 48))

parseInt(s) == IF s = "" \/ ~IsDigit(CharAt(s, 1)) THEN NullNum ELSE ParseDigits(s, 0)

\* Buffer.from(s).toString('base64')
B64Chars == "ABCDEFGHIJKLMNOPQRSTUVWXYZabcdefghijklmnopqrstuvwxyz0123456789+/"

B64Digit(n) == CharAt(B64Chars, n + 1)

RECURSIVE base64(_)
base64(s) ==
    IF s = "" THEN ""
    ELSE LET b1 == Ord(CharAt(s, 1))
             b2 == IF Len(s) >= 2 THEN Ord(CharAt(s, 2)) ELSE 0
             b3 == IF Len(s) >= 3 THEN Ord(CharAt(s, 3)) ELSE 0
             n  == b1 * 65536 + b2 * 256 + b3
         IN  B64Digit(n \div 262144)
             \o B64Digit((n \div 4096) % 64)
             \o (IF Len(s) >= 2 THEN B64Digit((n \div 64) % 64) ELSE "=")
             \o (IF Len(s) >= 3 THEN B64Digit(n % 64) ELSE "=")
             \o base64(SubSeq(s, 4, Len(s)))

\* new Date(s).toISOString() on the two input shapes the model feeds it:
\* a full UTC timestamp is returned as it is, a bare date gets midnight UTC
toISOString(s) == IF Len(s) = 10 THEN s \o "T00:00:00.000Z" ELSE s

\* new Date(s).toISOString().split('T')[0]
DatePart(s) == SplitFirst(toISOString(s), "T")

(***************************************************************************)
(* Program constants.                                                      *)
(***************************************************************************)
TARGET_ORG == "orgname"

\* imported by the server from settings.ts, which does not define it in this
\* revision; the described default of 24 hours is used
CACHE_MAX_AGE_HOURS == 24

dailyCacheMaxAgeMs == CACHE_MAX_AGE_HOURS * 60 * 60 * 1000

MEMBERS_CACHE_TTL == 1 * 60 * 60 * 1000

COMMITS_CACHE_TTL == 15 * 60 * 1000

ORG_ACTIVITY_CACHE_TTL == 15 * 60 * 1000

USER_ACTIVITY_CACHE_TTL == 15 * 60 * 1000

MAX_CONCURRENT_REPO_FETCHES == 5

per_page == 100

\* process.env.CACHE_DISABLED !== 'true': the cache is on unless switched off
CACHE_ENABLED == TRUE

(***************************************************************************)
(* The clock.  Date.now() is the variable now; it advances by one of       *)
(* TickSteps, at most MaxTicks times.  Infinity is larger than every age   *)
(* the clock can produce.                                                  *)
(***************************************************************************)
TickSteps == {ORG_ACTIVITY_CACHE_TTL, dailyCacheMaxAgeMs + 1}

MaxTime == MaxTicks * (dailyCacheMaxAgeMs + 1)

Infinity == MaxTime + 1

(***************************************************************************)
(* Cache store: one file per key, holding {timestamp, data}.  The store c  *)
(* is a function from the keys that have a file to the record in the file. *)
(***************************************************************************)
EmptyCache == [k \in {} |-> [timestamp |-> 0, data |-> <<>>]]

CacheMiss == [data |-> None, stale |-> FALSE, timestamp |-> NullNum]

\* fs.promises.writeFile either replaces the file (ok) or fails, and the
\* failure is logged and swallowed
writeCache(c, key, data, t, ok) ==
    IF ~CACHE_ENABLED THEN c
    ELSE IF ok THEN (key :> [timestamp |-> t, data |-> data]) @@ c
    ELSE c

readCacheExpiresAtTtl(c, key, maxAgeMs, t) ==
    IF ~CACHE_ENABLED THEN CacheMiss
    ELSE IF key \notin DOMAIN c THEN CacheMiss
    ELSE LET cacheEntry == c[key]
             cacheAge == t - cacheEntry.timestamp
             isExpired == cacheAge >= maxAgeMs
         IN  [data |-> Some(cacheEntry.data), stale |-> isExpired,
              timestamp |-> cacheEntry.timestamp]

readCache(c, key, maxAgeMs, t) ==
    IF ~CACHE_ENABLED THEN CacheMiss
    ELSE IF key \notin DOMAIN c THEN CacheMiss
    ELSE LET cacheEntry == c[key]
             cacheAge == t - cacheEntry.timestamp
             isExpired == cacheAge > maxAgeMs
         IN  [data |-> Some(cacheEntry.data), stale |-> isExpired,
              timestamp |-> cacheEntry.timestamp]

\* JavaScript truthiness of a cached payload: null is falsy, arrays and
\* objects (every payload the program stores) are truthy
Truthy(v) == v # None

(***************************************************************************)
(* Errors.  Every error value has the same fields; a string property an    *)
(* error object does not have is Undefined, a missing status is NoStatus   *)
(* (falsy, as undefined is).  name tells the class: "HttpError" is         *)
(* Octokit's RequestError, whose dataMessage is response.data.message.     *)
(* NoError stands for "no error was thrown".                               *)
(***************************************************************************)
NoHeaders == [sso |-> Undefined, remaining |-> Undefined, reset |-> Undefined]

NoStatus == 0

RequestError(status, headers, message, dataMessage) ==
    [name |-> "HttpError", message |-> message, status |-> status,
     ssoUrl |-> Undefined, resetTimestamp |-> NullNum, headers |-> headers,
     dataMessage |-> dataMessage]

PlainError(message) ==
    [name |-> "Error", message |-> message, status |-> NoStatus,
     ssoUrl |-> Undefined, resetTimestamp |-> NullNum, headers |-> NoHeaders,
     dataMessage |-> Undefined]

NoError == [name |-> "none", message |-> "", status |-> NoStatus,
            ssoUrl |-> Undefined, resetTimestamp |-> NullNum, headers |-> NoHeaders,
            dataMessage |-> Undefined]

SamlSsoError(message, ssoUrl) ==
    [name |-> "SamlSsoError", message |-> message, status |-> 403,
     ssoUrl |-> ssoUrl, resetTimestamp |-> NullNum, headers |-> NoHeaders,
     dataMessage |-> Undefined]

RateLimitError(message, resetTimestamp) ==
    [name |-> "RateLimitError", message |-> message, status |-> 429,
     ssoUrl |-> Undefined, resetTimestamp |-> resetTimestamp, headers |-> NoHeaders,
     dataMessage |-> Undefined]

\* the run of characters other than ';' at the start of s
RECURSIVE UntilSemicolon(_)
UntilSemicolon(s) ==
    IF s = "" \/ CharAt(s, 1) = ";" THEN ""
    ELSE CharAt(s, 1) \o UntilSemicolon(SubSeq(s, 2, Len(s)))

\* ssoHeader.match(/url=([^;]+)/)?.[1]
UrlMatch(s) ==
    LET starts == {i \in 1..Len(s) : /\ i + 4 <= Len(s)
                                     /\ SubSeq(s, i, i + 3) = "url="
                                     /\ CharAt(s, i + 4) # ";"}
    IN  IF starts = {} THEN Undefined
        ELSE LET i == CHOOSE j \in starts : \A k \in starts : j <= k
             IN  UntilSemicolon(SubSeq(s, i + 4, Len(s)))

SsoMessage == "Resource protected by organization SAML enforcement. Please authenticate via the provided URL."

NotFoundMessage == "GitHub resource not found (404). Check organization/repo names and token permissions."

RateLimitMessage == "GitHub API rate limit exceeded."

handleOctokitErrorWrapsOriginal(error) ==
    LET isRequestError == error.name = "HttpError"
        ssoHeader == error.headers.sso
        ssoUrl == IF ssoHeader # Undefined /\ startsWith(ssoHeader, "required")
                  THEN UrlMatch(ssoHeader) ELSE Undefined
        rateLimitRemaining == error.headers.remaining
        resetTimestampHeader == error.headers.reset
        resetTimestamp == IF resetTimestampHeader # Undefined /\ resetTimestampHeader # ""
                          THEN (IF parseInt(resetTimestampHeader) = NullNum THEN NullNum
                                ELSE parseInt(resetTimestampHeader) * 1000)
                          ELSE NullNum
        message == IF error.dataMessage # Undefined /\ error.dataMessage # ""
                   THEN error.dataMessage ELSE RateLimitMessage
    IN  IF isRequestError /\ error.status = 403 /\ ssoUrl # Undefined /\ ssoUrl # ""
        THEN SamlSsoError(SsoMessage, ssoUrl)
        ELSE IF isRequestError /\ error.status = 403 /\ rateLimitRemaining = "0"
        THEN RateLimitError(message, resetTimestamp)
        ELSE IF isRequestError /\ error.status = 404
        THEN PlainError(NotFoundMessage)
        ELSE PlainError(error.message)

handleOctokitErrorResetInSeconds(error) ==
    LET isRequestError == error.name = "HttpError"
        ssoHeader == error.headers.sso
        ssoUrl == IF ssoHeader # Undefined /\ startsWith(ssoHeader, "required")
                  THEN UrlMatch(ssoHeader) ELSE Undefined
        rateLimitRemaining == error.headers.remaining
        resetTimestampHeader == error.headers.reset
        resetTimestamp == IF resetTimestampHeader # Undefined /\ resetTimestampHeader # ""
                          THEN (IF parseInt(resetTimestampHeader) = NullNum THEN NullNum
                                ELSE parseInt(resetTimestampHeader))
                          ELSE NullNum
        message == IF error.dataMessage # Undefined /\ error.dataMessage # ""
                   THEN error.dataMessage ELSE RateLimitMessage
    IN  IF isRequestError /\ error.status = 403 /\ ssoUrl # Undefined /\ ssoUrl # ""
        THEN SamlSsoError(SsoMessage, ssoUrl)
        ELSE IF isRequestError /\ error.status = 403 /\ rateLimitRemaining = "0"
        THEN RateLimitError(message, resetTimestamp)
        ELSE IF isRequestError /\ error.status = 404
        THEN PlainError(NotFoundMessage)
        ELSE error

handleOctokitErrorRateLimitFirst(error) ==
    LET isRequestError == error.name = "HttpError"
        ssoHeader == error.headers.sso
        ssoUrl == IF ssoHeader # Undefined /\ startsWith(ssoHeader, "required")
                  THEN UrlMatch(ssoHeader) ELSE Undefined
        rateLimitRemaining == error.headers.remaining
        resetTimestampHeader == error.headers.reset
        resetTimestamp == IF resetTimestampHeader # Undefined /\ resetTimestampHeader # ""
                          THEN (IF parseInt(resetTimestampHeader) = NullNum THEN NullNum
                                ELSE parseInt(resetTimestampHeader) * 1000)
                          ELSE NullNum
        message == IF error.dataMessage # Undefined /\ error.dataMessage # ""
                   THEN error.dataMessage ELSE RateLimitMessage
    IN  IF isRequestError /\ error.status = 403 /\ rateLimitRemaining = "0"
        THEN RateLimitError(message, resetTimestamp)
        ELSE IF isRequestError /\ error.status = 403 /\ ssoUrl # Undefined /\ ssoUrl # ""
        THEN SamlSsoError(SsoMessage, ssoUrl)
        ELSE IF isRequestError /\ error.status = 404
        THEN PlainError(NotFoundMessage)
        ELSE error

\* handleOctokitError: the value is the error the function throws
handleOctokitError(error) ==
    LET isRequestError == error.name = "HttpError"
        ssoHeader == error.headers.sso
        ssoUrl == IF ssoHeader # Undefined /\ startsWith(ssoHeader, "required")
                  THEN UrlMatch(ssoHeader) ELSE Undefined
        rateLimitRemaining == error.headers.remaining
        resetTimestampHeader == error.headers.reset
        resetTimestamp == IF resetTimestampHeader # Undefined /\ resetTimestampHeader # ""
                          THEN (IF parseInt(resetTimestampHeader) = NullNum THEN NullNum
                                ELSE parseInt(resetTimestampHeader) * 1000)
                          ELSE NullNum
        message == IF error.dataMessage # Undefined /\ error.dataMessage # ""
                   THEN error.dataMessage ELSE RateLimitMessage
    IN  IF isRequestError /\ error.status = 403 /\ ssoUrl # Undefined /\ ssoUrl # ""
        THEN SamlSsoError(SsoMessage, ssoUrl)
        ELSE IF isRequestError /\ error.status = 403 /\ rateLimitRemaining = "0"
        THEN RateLimitError(message, resetTimestamp)
        ELSE IF isRequestError /\ error.status = 404
        THEN PlainError(NotFoundMessage)
        ELSE error

\* the statement of handleOctokitError that ends the call
ErrorRule(error) ==
    LET isRequestError == error.name = "HttpError"
        ssoHeader == error.headers.sso
        ssoUrl == IF ssoHeader # Undefined /\ startsWith(ssoHeader, "required")
                  THEN UrlMatch(ssoHeader) ELSE Undefined
    IN  IF isRequestError /\ error.status = 403 /\ ssoUrl # Undefined /\ ssoUrl # ""
        THEN "throw new SamlSsoError"
        ELSE IF isRequestError /\ error.status = 403 /\ error.headers.remaining = "0"
        THEN "throw new RateLimitError"
        ELSE IF isRequestError /\ error.status = 404
        THEN "throw new Error"
        ELSE "throw error"

handleOctokitErrorThrowsOnlyClassified(error) == ErrorRule(error) # "throw error"

\* whether the call ends by throwing: each of the four statements is a throw
handleOctokitErrorThrows(error) ==
    ErrorRule(error) \in {"throw new SamlSsoError", "throw new RateLimitError",
                          "throw new Error", "throw error"}

(***************************************************************************)
(* The upstream (GitHub) as the program sees it: every call either returns *)
(* the data below or fails with one of UpstreamErrors.                     *)
(***************************************************************************)
ErrSso == RequestError(403, [NoHeaders EXCEPT !.sso = "required; url=https://sso.example/orgname"],
                       "Resource protected by organization SAML enforcement.",
                       "Resource protected by organization SAML enforcement.")

ErrRateLimit == RequestError(403, [NoHeaders EXCEPT !.remaining = "0", !.reset = "1700"],
                             "API rate limit exceeded", Undefined)

Err500 == RequestError(500, NoHeaders, "Server Error", "Server Error")

Err401 == RequestError(401, NoHeaders, "Bad credentials", "Bad credentials")

UpstreamErrors == {ErrSso, ErrRateLimit, Err500, Err401}

\* the logins octokit.orgs.listMembers can return, in order
MemberPool == <<"Al", "bo", "Cy">>

MemberLists == {SubSeq(MemberPool, 1, n) : n \in 0..MaxMembers}

\* userProfile.data.name
ProfileName(login) == "Name of " \o login

NoAuthor == Null

\* a commit item: the repository and number stand for its sha, author is
\* commit.author.login (NoAuthor when commit.author is null)
Commit(repo, n, author) == [repo |-> repo, n |-> n, author |-> author]

\* the commits of each repository, as octokit.repos.listCommits pages them:
\* "big" fills one page and has one commit on the second, "full" and
\* "full2" fill exactly one and two pages
RepoCommits(repo) ==
    CASE repo = "a"   -> <<Commit("a", 1, "Al")>>
      [] repo = "b"   -> <<Commit("b", 1, "BO"), Commit("b", 2, NoAuthor),
                           Commit("b", 3, "zed"), Commit("b", 4, "al")>>
      [] repo = "big" -> [i \in 1..(per_page + 1) |->
                            Commit("big", i, IF i = 1 \/ i = per_page + 1 THEN "AL" ELSE "zed")]
      [] repo = "full"  -> [i \in 1..per_page |-> Commit("full", i, "al")]
      [] repo = "full2" -> [i \in 1..(2 * per_page) |->
                              Commit("full2", i, IF i = per_page THEN "al" ELSE "zed")]
      [] OTHER        -> <<>>

\* response.data of listCommits({repo, per_page, page})
ListCommitsPage(repo, page) ==
    LET all == RepoCommits(repo)
        from == (page - 1) * per_page + 1
        to == IF page * per_page < Len(all) THEN page * per_page ELSE Len(all)
    IN  IF from > Len(all) THEN <<>> ELSE SubSeq(all, from, to)

(***************************************************************************)
(* The data the searches return (octokit.paginate of a search endpoint):   *)
(* items with the fields the program reads; created_at and closed_at are   *)
(* the milliseconds new Date(..).getTime() gives, closed_at of an open     *)
(* pull request is null.                                                   *)
(***************************************************************************)
KindSet == {"commits", "prs_authored", "issues_authored", "pr_comments"}

Item(id, created_at, closed_at) == [id |-> id, created_at |-> created_at, closed_at |-> closed_at]

SearchResults(kind, username) ==
    CASE kind = "commits"         -> IF username = "Al"
                                     THEN <<Item(1, 0, NullNum), Item(2, 0, NullNum)>>
                                     ELSE <<Item(3, 0, NullNum)>>
      [] kind = "prs_authored"    -> IF username = "Al"
                                     THEN <<Item(4, 0, 7200000), Item(5, 0, NullNum),
                                            Item(6, 3600000, 7200000 + 3600000)>>
                                     ELSE <<>>
      [] kind = "issues_authored" -> <<>>
      [] kind = "pr_comments"     -> <<Item(7, 0, NullNum)>>

(***************************************************************************)
(* State.                                                                  *)
(***************************************************************************)
VARIABLES
    now,                \* Date.now()
    ticks,              \* how often the clock has advanced
    cache,              \* the cache directory
    calls,              \* upstream requests issued since the running operation began
    failures,           \* faults so far: failed upstream requests and failed file writes
    \* --- getOrgMemberCommits ---
    scanPc,             \* "idle", "members", "draining", "returned", "threw"
    scanArgs,           \* [org, targetRepos, since, until] of the running scan
    memberLogins,       \* the Set of lowercased member logins
    repoQueue,          \* the queue of repositories not yet dequeued
    activeFetches,      \* the counter of the source
    fetches,            \* per position of targetRepos: the fetchCommitsForRepo task
    allMatchingCommits, \* the merged list
    scanOut,            \* what the scan returned or threw
    ssoRejected,        \* some task of the scan rejected with a SamlSsoError
    reposHanded,        \* the part of the scan budget that is used up
    \* --- the route handlers ---
    TARGET_REPOS,       \* settings.ts, fixed while the server runs
    hPc,                \* "idle", "check", "launch", "members", "await", "catch", "done"
    hReq,               \* [handler, username, since, until] of the running request
    hTime,              \* Date.now() when the request arrived
    hErr,               \* the error the catch block caught (NoError: none)
    hErrFrom,           \* the call that threw it: "members", "search", "scan"
    responses,          \* what was sent on res for the running request
    catchEntry,         \* the file under the handler's key when the catch block ran
    members,            \* the members getOrgActivityData got
    searchUsers,        \* the logins whose four searches were started
    searches,           \* per login and kind: the search call
    requests,           \* requests served so far
    foreignWrites,      \* entries written by another writer so far
    lastFresh,          \* per request parameters: the payload of the last fresh fetch
    \* --- the cache directory, file by file ---
    files,              \* per path of a regular file: its bytes
    ops,                \* the writeCache and readCache calls that have not settled
    opCount,            \* calls of writeCache and readCache so far
    persisted,          \* per key: the entry of the last writeCache whose writeFile succeeded
    lastWrite,          \* the writeCache call that settled last, while nothing happened since
    lastRead,           \* the readCache call that settled in the last step: arguments and result
    tampered,           \* files whose bytes another program has replaced, so far
    \* --- functions applied to drawn arguments ---
    fnIn,               \* the arguments drawn
    fnOut               \* what the function applied to them gave

scanVars == <<scanPc, scanArgs, memberLogins, repoQueue, activeFetches, fetches,
              allMatchingCommits, scanOut, ssoRejected, reposHanded>>

handlerVars == <<TARGET_REPOS, hPc, hReq, hTime, hErr, hErrFrom, responses, catchEntry,
                 members, searchUsers, searches, requests, foreignWrites, lastFresh>>

fileVars == <<files, ops, opCount, persisted, lastWrite, lastRead, tampered>>

fnVars == <<fnIn, fnOut>>

vars == <<now, ticks, cache, calls, failures, scanVars, handlerVars, fileVars, fnVars>>

(***************************************************************************)
(* Results of an awaited call: a value or a thrown error.                  *)
(***************************************************************************)
Returned(v, c, n, hit) ==
    [threw |-> FALSE, value |-> v, error |-> NoError, cache |-> c, calls |-> n, hit |-> hit]

Threw(e, c, n) ==
    [threw |-> TRUE, value |-> <<>>, error |-> e, cache |-> c, calls |-> n, hit |-> FALSE]

\* outcome of one upstream request
UpOk(d) == [ok |-> TRUE, data |-> d, error |-> NoError]

UpFail(e) == [ok |-> FALSE, data |-> <<>>, error |-> e]

\* whether fs.promises.writeFile succeeds
DiskOutcomes == BOOLEAN

Fault(ok) == IF ok THEN 0 ELSE 1

(***************************************************************************)
(* getOrgMembers, run to completion: c is the cache, t the time, listOut   *)
(* the outcome of paginate(listMembers), profOk[i] whether getByUsername   *)
(* of the i-th member succeeds, diskOk whether the cache file is written.  *)
(***************************************************************************)
MembersCacheKey(org) == "org-" \o org \o "-members-with-names"

ListMembersOutcomes == {UpOk(l) : l \in MemberLists} \cup {UpFail(e) : e \in UpstreamErrors}

ProfileOutcomes == [1..MaxMembers -> BOOLEAN]

\* the faults of a run of getOrgMembers with these outcomes
MembersFailures(c, org, t, listOut, profOk, diskOk) ==
    LET r == readCache(c, MembersCacheKey(org), MEMBERS_CACHE_TTL, t)
    IN  IF Truthy(r.data) /\ ~r.stale THEN 0
        ELSE IF ~listOut.ok THEN 1
        ELSE Cardinality({i \in 1..Len(listOut.data) : ~profOk[i]}) + Fault(diskOk)

getOrgMembersFailsOnProfile(c, org, t, listOut, profOk, diskOk) ==
    LET cacheKey == MembersCacheKey(org)
        r == readCache(c, cacheKey, MEMBERS_CACHE_TTL, t)
    IN  IF Truthy(r.data) /\ ~r.stale THEN Returned(r.data[1], c, 0, TRUE)
        ELSE IF ~listOut.ok THEN Threw(handleOctokitError(listOut.error), c, 1)
        ELSE IF \E i \in 1..Len(listOut.data) : ~profOk[i]
        THEN Threw(handleOctokitError(Err500), c, 1 + Len(listOut.data))
        ELSE LET membersList == listOut.data
                 membersWithNames ==
                     [i \in 1..Len(membersList) |->
                        [login |-> membersList[i], name |-> ProfileName(membersList[i])]]
             IN  Returned(membersWithNames,
                          writeCache(c, cacheKey, membersWithNames, t, diskOk),
                          1 + Len(membersList), FALSE)

getOrgMembers(c, org, t, listOut, profOk, diskOk) ==
    LET cacheKey == MembersCacheKey(org)
        r == readCache(c, cacheKey, MEMBERS_CACHE_TTL, t)
    IN  IF Truthy(r.data) /\ ~r.stale THEN Returned(r.data[1], c, 0, TRUE)
        ELSE IF ~listOut.ok THEN Threw(handleOctokitError(listOut.error), c, 1)
        ELSE LET membersList == listOut.data
                 membersWithNames ==
                     [i \in 1..Len(membersList) |->
                        [login |-> membersList[i],
                         name |-> IF profOk[i] THEN ProfileName(membersList[i]) ELSE Null]]
             IN  Returned(membersWithNames,
                          writeCache(c, cacheKey, membersWithNames, t, diskOk),
                          1 + Len(membersList), FALSE)

(***************************************************************************)
(* getOrgMemberCommits: the bounded repository scan.                       *)
(***************************************************************************)
CommitsCacheKey(org, targetRepos, since, until) ==
    LET repoKeyPart == join(sort(targetRepos), "_")
        sinceKeyPart == IF since # Undefined /\ since # "" THEN DatePart(since) ELSE "start"
        untilKeyPart == IF until # Undefined /\ until # "" THEN DatePart(until) ELSE "now"
    IN  "org-" \o org \o "-commits-repos_" \o repoKeyPart
        \o "-since_" \o sinceKeyPart \o "-until_" \o untilKeyPart

\* a fetchCommitsForRepo task with its promise chain: st is "queued" (not
\* dequeued), "skipped" (dequeued, no fetch started), "inflight" (a
\* listCommits page is awaited), "settled" (the promise settled and .then or
\* .catch has run; .finally has not), "done".  result is what the promise
\* resolved with (None when it rejected).
NewFetch == [st |-> "queued", page |-> 0, repoCommits |-> <<>>, result |-> None]

StartFetch(f) == [f EXCEPT !.st = "inflight", !.page = 1]

\* the loop condition of processQueue
QueueHasRoomInclusive(queue, active) ==
    Len(queue) > 0 /\ active <= MAX_CONCURRENT_REPO_FETCHES

QueueHasRoom(queue, active) == Len(queue) > 0 /\ active < MAX_CONCURRENT_REPO_FETCHES

RECURSIVE processQueueShiftsTwice(_, _)
processQueueShiftsTwice(q, n) ==
    IF QueueHasRoom(q.queue, q.active)
    THEN LET repo == Head(q.queue)
             idx == n - Len(q.queue) + 1
             rest == Tail(q.queue)
             fs == IF repo = "" THEN [q.fetches EXCEPT ![idx].st = "skipped"]
                   ELSE [q.fetches EXCEPT ![idx] = StartFetch(q.fetches[idx])]
         IN  processQueueShiftsTwice(
                 [queue |-> IF Len(rest) > 0 THEN Tail(rest) ELSE rest,
                  active |-> q.active + 1,
                  fetches |-> IF Len(rest) > 0 THEN [fs EXCEPT ![idx + 1].st = "skipped"] ELSE fs,
                  calls |-> IF repo = "" THEN q.calls ELSE q.calls + 1], n)
    ELSE q

\* one call of processQueue on the state q = [queue, active, fetches, calls];
\* n is the length of targetRepos, so the head of the queue is position
\* n - Len(queue) + 1
RECURSIVE processQueue(_, _)
processQueue(q, n) ==
    IF QueueHasRoom(q.queue, q.active)
    THEN LET repo == Head(q.queue)
             idx == n - Len(q.queue) + 1
         IN  IF repo = ""
             THEN processQueue([q EXCEPT !.queue = Tail(q.queue), !.active = q.active + 1,
                                         !.fetches[idx].st = "skipped"], n)
             ELSE processQueue([q EXCEPT !.queue = Tail(q.queue), !.active = q.active + 1,
                                         !.fetches[idx] = StartFetch(q.fetches[idx]),
                                         !.calls = q.calls + 1], n)
    ELSE q

\* Array(MAX_CONCURRENT_REPO_FETCHES).fill(null).map(() => processQueue())
RECURSIVE initialProcesses(_, _, _)
initialProcesses(q, n, k) == IF k = 0 THEN q ELSE initialProcesses(processQueue(q, n), n, k - 1)

IsMemberCommitCaseSensitive(commit, logins) ==
    commit.author # NoAuthor /\ commit.author \in logins

\* commit.author && memberLogins.has(commit.author.login.toLowerCase())
IsMemberCommit(commit, logins) ==
    commit.author # NoAuthor /\ toLowerCase(commit.author) \in logins

pageMemberCommits(data, logins) == SelectSeq(data, LAMBDA commit : IsMemberCommit(commit, logins))

PageArrivedStopsOnlyOnEmpty(f, repo, logins) ==
    LET data == ListCommitsPage(repo, f.page)
    IN  IF Len(data) = 0 THEN [f EXCEPT !.st = "settled", !.result = Some(f.repoCommits)]
        ELSE [f EXCEPT !.page = f.page + 1,
                       !.repoCommits = f.repoCommits \o pageMemberCommits(data, logins)]

\* a page of listCommits arrived for task f of repository repo: the loop
\* either goes on to the next page or breaks, and then the task resolves
\* with repoCommits
PageArrived(f, repo, logins) ==
    LET data == ListCommitsPage(repo, f.page)
    IN  IF Len(data) = 0 THEN [f EXCEPT !.st = "settled", !.result = Some(f.repoCommits)]
        ELSE LET pushed == f.repoCommits \o pageMemberCommits(data, logins)
             IN  IF Len(data) < per_page
                 THEN [f EXCEPT !.st = "settled", !.repoCommits = pushed, !.result = Some(pushed)]
                 ELSE [f EXCEPT !.page = f.page + 1, !.repoCommits = pushed]

\* fetchCommitsForRepo with every listCommits call succeeding: the pages
\* requested, in order, and the task as it settles
RECURSIVE fetchCommitsForRepo(_, _, _, _)
fetchCommitsForRepo(f, repo, logins, pages) ==
    IF f.st = "settled" THEN [task |-> f, pages |-> pages]
    ELSE fetchCommitsForRepo(PageArrived(f, repo, logins), repo, logins, Append(pages, f.page))

PageFailedKeepsPages(f, error) ==
    [f EXCEPT !.st = "settled", !.result = Some(f.repoCommits)]

\* listCommits failed with error: the catch block calls handleOctokitError;
\* when that throws the task rejects and its repoCommits are dropped,
\* otherwise the block logs and the task resolves with repoCommits
PageFailed(f, error) ==
    IF handleOctokitErrorThrows(error) THEN [f EXCEPT !.st = "settled", !.result = None]
    ELSE [f EXCEPT !.st = "settled", !.result = Some(f.repoCommits)]

DrainingWhileQueued(active, queue) == Len(queue) > 0

\* the condition of the drain loop
Draining(active, queue) == active > 0

\* Scheduling of what runs beside a handler.  The catch block reads only the
\* handler's key, which no running search or scan writes, so its step
\* commutes with theirs and is taken first.  The searches work on keys of
\* their own and the handler sees only their first rejection or all their
\* results, so they complete in the order in which they were started; any
\* of them can be the one that fails.  Once the response is sent nothing
\* reads what is still running: the searches complete, then the scan.
CatchRuns == hPc = "catch"

SearchesPending == \E i \in DOMAIN searches : \E k \in DOMAIN searches[i] :
                      searches[i][k].st = "pending"

ScanTurn == ~CatchRuns /\ (hPc = "done" => ~SearchesPending)

ScanIdle == scanPc \in {"idle", "returned", "threw"}

NoScanOut == [threw |-> FALSE, value |-> <<>>, error |-> NoError, hit |-> FALSE]

\* getOrgMemberCommits is called: the cache is read first
ScanBegin(org, targetRepos, since, until) ==
    LET cacheKey == CommitsCacheKey(org, targetRepos, since, until)
        r == readCache(cache, cacheKey, COMMITS_CACHE_TTL, now)
    IN  /\ scanArgs' = [org |-> org, targetRepos |-> targetRepos, since |-> since, until |-> until]
        /\ memberLogins' = {}
        /\ repoQueue' = <<>>
        /\ activeFetches' = 0
        /\ fetches' = <<>>
        /\ allMatchingCommits' = <<>>
        /\ ssoRejected' = FALSE
        /\ IF Truthy(r.data) /\ ~r.stale
           THEN /\ scanPc' = "returned"
                /\ scanOut' = [NoScanOut EXCEPT !.value = r.data[1], !.hit = TRUE]
           ELSE /\ scanPc' = "members"
                /\ scanOut' = NoScanOut

\* await getOrgMembers(org), then the queue is set up and the initial wave of
\* processQueue calls runs
ScanMembers ==
    /\ ScanTurn
    /\ scanPc = "members"
    /\ \E listOut \in ListMembersOutcomes, profOk \in ProfileOutcomes, diskOk \in DiskOutcomes :
         LET res == getOrgMembers(cache, scanArgs.org, now, listOut, profOk, diskOk)
             failed == MembersFailures(cache, scanArgs.org, now, listOut, profOk, diskOk)
             n == Len(scanArgs.targetRepos)
             q0 == [queue |-> scanArgs.targetRepos, active |-> 0,
                    fetches |-> [i \in 1..n |-> NewFetch], calls |-> calls + res.calls]
             q == initialProcesses(q0, n, MAX_CONCURRENT_REPO_FETCHES)
         IN  /\ failures + failed <= MaxFailures
             /\ failures' = failures + failed
             /\ cache' = res.cache
             /\ IF res.threw
                THEN /\ scanPc' = "threw"
                     /\ scanOut' = [scanOut EXCEPT !.threw = TRUE, !.error = res.error]
                     /\ calls' = calls + res.calls
                     /\ UNCHANGED <<memberLogins, repoQueue, activeFetches, fetches>>
                ELSE /\ scanPc' = "draining"
                     /\ memberLogins' = {toLowerCase(res.value[i].login) : i \in 1..Len(res.value)}
                     /\ repoQueue' = q.queue
                     /\ activeFetches' = q.active
                     /\ fetches' = q.fetches
                     /\ calls' = q.calls
                     /\ UNCHANGED scanOut
    /\ UNCHANGED <<fileVars, fnVars, now, ticks, scanArgs, allMatchingCommits, ssoRejected, reposHanded,
                   handlerVars>>

\* a listCommits request of task i completes or fails; when the task settles,
\* .then(commits => allMatchingCommits.push(...commits)) or .catch(log) runs
FetchPage(i) ==
    /\ ScanTurn
    /\ scanPc = "draining"
    /\ i \in DOMAIN fetches
    /\ fetches[i].st = "inflight"
    /\ \E out \in {UpOk(<<>>)} \cup {UpFail(e) : e \in UpstreamErrors} :
         LET f == IF out.ok THEN PageArrived(fetches[i], scanArgs.targetRepos[i], memberLogins)
                  ELSE PageFailed(fetches[i], out.error)
         IN  /\ out.ok \/ failures < MaxFailures
             /\ failures' = IF out.ok THEN failures ELSE failures + 1
             /\ fetches' = [fetches EXCEPT ![i] = f]
             /\ calls' = IF f.st = "inflight" THEN calls + 1 ELSE calls
             /\ allMatchingCommits' = IF f.st = "settled" /\ f.result # None
                                      THEN allMatchingCommits \o f.result[1]
                                      ELSE allMatchingCommits
             /\ ssoRejected' = (ssoRejected \/
                                (~out.ok /\ handleOctokitError(out.error).name = "SamlSsoError"))
    /\ UNCHANGED <<fileVars, fnVars, now, ticks, cache, scanPc, scanArgs, memberLogins, repoQueue,
                   activeFetches, scanOut, reposHanded, handlerVars>>

\* .finally(() => { activeFetches--; processQueue(); })
FetchFinally(i) ==
    /\ ScanTurn
    /\ scanPc = "draining"
    /\ i \in DOMAIN fetches
    /\ fetches[i].st = "settled"
    /\ LET q == processQueue([queue |-> repoQueue, active |-> activeFetches - 1,
                              fetches |-> [fetches EXCEPT ![i].st = "done"],
                              calls |-> calls],
                             Len(scanArgs.targetRepos))
       IN  /\ repoQueue' = q.queue
           /\ activeFetches' = q.active
           /\ fetches' = q.fetches
           /\ calls' = q.calls
    /\ UNCHANGED <<fileVars, fnVars, now, ticks, cache, failures, scanPc, scanArgs, memberLogins,
                   allMatchingCommits, scanOut, ssoRejected, reposHanded, handlerVars>>

\* one evaluation of while (activeFetches > 0) { sleep }: when it ends the
\* list is written to the cache and returned
DrainCheck ==
    /\ ScanTurn
    /\ scanPc = "draining"
    /\ IF Draining(activeFetches, repoQueue)
       THEN UNCHANGED <<cache, failures, scanPc, scanOut>>
       ELSE \E diskOk \in DiskOutcomes :
              /\ failures + Fault(diskOk) <= MaxFailures
              /\ failures' = failures + Fault(diskOk)
              /\ cache' = writeCache(cache,
                                     CommitsCacheKey(scanArgs.org, scanArgs.targetRepos,
                                                     scanArgs.since, scanArgs.until),
                                     allMatchingCommits, now, diskOk)
              /\ scanPc' = "returned"
              /\ scanOut' = [scanOut EXCEPT !.value = allMatchingCommits]
    /\ UNCHANGED <<fileVars, fnVars, now, ticks, calls, scanArgs, memberLogins, repoQueue,
                   activeFetches, fetches, allMatchingCommits, ssoRejected, reposHanded,
                   handlerVars>>

ScanStep ==
    \/ ScanMembers
    \/ \E i \in DOMAIN fetches : FetchPage(i)
    \/ \E i \in DOMAIN fetches : FetchFinally(i)
    \/ DrainCheck


(***************************************************************************)
(* The configurations and request parameters the model draws from.         *)
(***************************************************************************)
TargetRepoChoices == {<<>>, <<"a">>, <<"">>}

Usernames == {"Al"}

SinceChoices == {"2024-01-01T00:00:00.000Z"}

UntilChoices == {Undefined}

(***************************************************************************)
(* The four searches: searchUserCommits, searchUserPRsAuthored,            *)
(* searchUserIssuesAuthored, searchUserPRComments.  They differ in the     *)
(* query and in the kind that is part of the key.                          *)
(***************************************************************************)
\* JavaScript truthiness of an optional string
TruthyStr(s) == s # Undefined /\ s # Null /\ s # ""

\* targetRepos.map(repo => `repo:${org}/${repo}`).join(' ')
RepoQualifier(org, targetRepos) ==
    join([i \in 1..Len(targetRepos) |-> "repo:" \o org \o "/" \o targetRepos[i]], " ")

DateQualifier(kind, since) ==
    IF TruthyStr(since)
    THEN (IF kind = "commits" THEN "committer-date:>" ELSE "created:>") \o since
    ELSE ""

QueryHead(kind, username) ==
    CASE kind = "commits"         -> "author:" \o username
      [] kind = "prs_authored"    -> "is:pr author:" \o username
      [] kind = "issues_authored" -> "is:issue author:" \o username
      [] kind = "pr_comments"     -> "is:pr commenter:" \o username

SearchQuery(kind, org, username, targetRepos, since) ==
    QueryHead(kind, username) \o " " \o RepoQualifier(org, targetRepos)
        \o " " \o DateQualifier(kind, since)

SearchCacheKey(kind, org, username, targetRepos, since) ==
    "user-" \o username \o "-" \o kind \o "-query_"
        \o base64(SearchQuery(kind, org, username, targetRepos, since))

\* the keys of the searches the model runs, computed once
SearchLogins == {MemberPool[i] : i \in 1..Len(MemberPool)} \cup Usernames

SearchKeyTable ==
    [kind \in KindSet |-> [username \in SearchLogins |-> [targetRepos \in TargetRepoChoices |->
        [since \in SinceChoices |->
            SearchCacheKey(kind, TARGET_ORG, username, targetRepos, since)]]]]

SearchKey(kind, org, username, targetRepos, since) ==
    IF org = TARGET_ORG /\ username \in SearchLogins /\ targetRepos \in TargetRepoChoices
       /\ since \in SinceChoices
    THEN SearchKeyTable[kind][username][targetRepos][since]
    ELSE SearchCacheKey(kind, org, username, targetRepos, since)

SearchOutcomes(kind, username) ==
    {UpOk(SearchResults(kind, username))} \cup {UpFail(e) : e \in UpstreamErrors}

searchUserThrowsOnWriteFailure(c, kind, org, username, targetRepos, since, t, out, diskOk) ==
    LET cacheKey == SearchKey(kind, org, username, targetRepos, since)
        r == readCache(c, cacheKey, USER_ACTIVITY_CACHE_TTL, t)
    IN  IF Truthy(r.data) /\ ~r.stale THEN Returned(r.data[1], c, 0, TRUE)
        ELSE IF out.ok /\ diskOk
        THEN Returned(out.data, writeCache(c, cacheKey, out.data, t, diskOk), 1, FALSE)
        ELSE Threw(handleOctokitError(IF out.ok THEN PlainError("ENOSPC") ELSE out.error), c, 1)

\* one search, run to completion
searchUser(c, kind, org, username, targetRepos, since, t, out, diskOk) ==
    LET cacheKey == SearchKey(kind, org, username, targetRepos, since)
        r == readCache(c, cacheKey, USER_ACTIVITY_CACHE_TTL, t)
    IN  IF Truthy(r.data) /\ ~r.stale THEN Returned(r.data[1], c, 0, TRUE)
        ELSE IF out.ok
        THEN Returned(out.data, writeCache(c, cacheKey, out.data, t, diskOk), 1, FALSE)
        ELSE Threw(handleOctokitError(out.error), c, 1)

\* the faults of that run
SearchFailures(res, out, diskOk) ==
    IF res.hit THEN 0 ELSE IF ~out.ok THEN 1 ELSE Fault(diskOk)

\* the kinds in the order in which the searches of a login are started
Kinds == <<"commits", "prs_authored", "issues_authored", "pr_comments">>

KindIndex(k) == CHOOSE n \in 1..Len(Kinds) : Kinds[n] = k

\* a search call: st is "pending", "ok" or "failed", error the reason of its
\* rejection
PendingSearch == [st |-> "pending", result |-> <<>>, error |-> NoError]

SearchSettledRetries(res) ==
    IF res.threw THEN [st |-> "pending", result |-> <<>>, error |-> res.error]
    ELSE [st |-> "ok", result |-> res.value, error |-> NoError]

SearchSettledNeverRejects(res) == [st |-> "ok", result |-> res.value, error |-> res.error]

\* the promise of a search call that ran to completion with res
SearchSettled(res) ==
    IF res.threw THEN [st |-> "failed", result |-> <<>>, error |-> res.error]
    ELSE [st |-> "ok", result |-> res.value, error |-> NoError]

StartSearches(logins) == [i \in 1..Len(logins) |-> [k \in KindSet |-> PendingSearch]]

\* no search started before the search of kind k of the i-th login is pending
FirstPending(i, k) ==
    \A j \in DOMAIN searches : \A l \in KindSet :
        (j < i \/ (j = i /\ KindIndex(l) < KindIndex(k))) => searches[j][l].st # "pending"

SearchTurn(i, k) == ~CatchRuns /\ FirstPending(i, k)

AllSearchesOk == \A i \in DOMAIN searches : \A k \in KindSet : searches[i][k].st = "ok"

(***************************************************************************)
(* getOrgActivityData.                                                     *)
(***************************************************************************)
OrgActivityCacheKey(org, targetRepos, since, until) ==
    "org-" \o org \o "-activity-repos_" \o join(sort(targetRepos), "_")
        \o "-since_" \o (IF TruthyStr(since) THEN DatePart(since) ELSE "start")
        \o "-until_" \o (IF TruthyStr(until) THEN DatePart(until) ELSE "now")

ActivityByUserKeepsCase(ms, results) ==
    LET last(l) == CHOOSE i \in 1..Len(ms) :
                      /\ ms[i].login = l
                      /\ \A j \in 1..Len(ms) : ms[j].login = l => j <= i
    IN  [l \in {ms[i].login : i \in 1..Len(ms)} |->
           [commitCount        |-> Len(results[last(l)]["commits"].result),
            prAuthoredCount    |-> Len(results[last(l)]["prs_authored"].result),
            issueAuthoredCount |-> Len(results[last(l)]["issues_authored"].result),
            prCommentCount     |-> Len(results[last(l)]["pr_comments"].result)]]

\* memberActivities.reduce(...): one summary per lowercased login, a later
\* member replacing an earlier one with the same lowercased login
ActivityByUser(ms, results) ==
    LET lower(i) == toLowerCase(ms[i].login)
        last(l) == CHOOSE i \in 1..Len(ms) :
                      /\ lower(i) = l
                      /\ \A j \in 1..Len(ms) : lower(j) = l => j <= i
    IN  [l \in {lower(i) : i \in 1..Len(ms)} |->
           [commitCount        |-> Len(results[last(l)]["commits"].result),
            prAuthoredCount    |-> Len(results[last(l)]["prs_authored"].result),
            issueAuthoredCount |-> Len(results[last(l)]["issues_authored"].result),
            prCommentCount     |-> Len(results[last(l)]["pr_comments"].result)]]

OrgActivityData(ms, results) == [activityByUser |-> ActivityByUser(ms, results), members |-> ms]

(***************************************************************************)
(* The route handlers.                                                     *)
(***************************************************************************)
Handlers == {"org", "user"}

OrgDashboardCacheKey(repos, sinceISO, untilISO) ==
    LET repoKeyPart == join(repos, ",")
        sinceKeyPart == StripDashColon(sinceISO)
        untilKeyPart == IF TruthyStr(untilISO) THEN StripDashColon(untilISO) ELSE ""
    IN  "org-" \o TARGET_ORG \o "-activity-repos_" \o repoKeyPart
        \o "-since_" \o sinceKeyPart \o "-until_" \o untilKeyPart

UserDetailsCacheKey(username, sinceISO, untilISO) ==
    "user-" \o username \o "-details-since_" \o StripDashColon(sinceISO)
        \o "-until_" \o (IF TruthyStr(untilISO) THEN StripDashColon(untilISO) ELSE "")

HandlerKey(req, repos) ==
    IF req.handler = "org" THEN OrgDashboardCacheKey(repos, req.since, req.until)
    ELSE UserDetailsCacheKey(req.username, req.since, req.until)

\* {...obj, k1: v1, ...}: the later properties win
Spread(obj, later) == later @@ obj

\* a response body without the envelope the handlers add
Payload(body) == [f \in DOMAIN body \ {"isStale", "timestamp", "error"} |-> body[f]]

Response(status, body) == [status |-> status, body |-> body]

\* res.json({ ...dashboardData, isStale: false, timestamp: dailyTimestamp }) and
\* res.json({ ...dailyCachedDetails, isStale: false, timestamp })
CachedResponse(handler, data, timestamp) ==
    IF handler = "org"
    THEN Response(200, Spread([members |-> data.members, activityByUser |-> data.activityByUser],
                              [isStale |-> FALSE, timestamp |-> timestamp]))
    ELSE Response(200, Spread(data, [isStale |-> FALSE, timestamp |-> timestamp]))

\* res.json({ ...orgActivityData, isStale: false }) and
\* res.json({ ...responsePayload, isStale: false })
FreshResponse(data) == Response(200, Spread(data, [isStale |-> FALSE]))

StaleResponseStampedNow(staleData, error, timestamp) ==
    LET errorPayload == [message |-> error.message, isStale |-> TRUE, timestamp |-> now]
    IN  Response(200, Spread(staleData, [isStale |-> TRUE, error |-> errorPayload,
                                         timestamp |-> now]))

\* res.status(200).json({ ...staleData, isStale: true, error: errorPayload, timestamp })
StaleResponse(staleData, error, timestamp) ==
    LET errorPayload == [message |-> error.message, isStale |-> TRUE, timestamp |-> timestamp]
    IN  Response(200, Spread(staleData, [isStale |-> TRUE, error |-> errorPayload,
                                         timestamp |-> timestamp]))

\* the general error handler of the application, reached by next(error)
GeneralErrorHandler(err) ==
    IF err.name = "SamlSsoError"
    THEN Response(err.status, [message |-> err.message, ssoRequired |-> TRUE, ssoUrl |-> err.ssoUrl])
    ELSE IF err.name = "RateLimitError"
    THEN Response(err.status, [message |-> err.message, rateLimitExceeded |-> TRUE,
                               resetTimestamp |-> err.resetTimestamp])
    ELSE Response(IF err.status # NoStatus THEN err.status ELSE 500,
                  [message |-> IF err.message # "" THEN err.message ELSE "Internal Server Error"])

ErrorResponseEmptySuccess(error) == Response(200, [isStale |-> FALSE])

\* the else branch of the catch block: no stale data, the original error
ErrorResponse(error) ==
    IF error.name = "SamlSsoError"
    THEN Response(error.status, [ssoRequired |-> TRUE, ssoUrl |-> error.ssoUrl,
                                 message |-> error.message])
    ELSE IF error.name = "RateLimitError"
    THEN Response(error.status, [rateLimitExceeded |-> TRUE,
                                 resetTimestamp |-> error.resetTimestamp,
                                 message |-> error.message])
    ELSE GeneralErrorHandler(error)

\* the payload handleGetUserDetails assembles; avgTurnaroundHours is the mean
\* of closed_at - created_at over the closed pull requests, in hours (the
\* items above make the quotient whole)
UserPayload(username, results, allOrgCommitsData) ==
    LET userPRsAuthored == results["prs_authored"].result
        closed == {i \in 1..Len(userPRsAuthored) : userPRsAuthored[i].closed_at # NullNum}
        RECURSIVE total(_)
        total(S) == IF S = {} THEN 0
                    ELSE LET i == CHOOSE j \in S : TRUE
                         IN  (userPRsAuthored[i].closed_at - userPRsAuthored[i].created_at)
                             + total(S \ {i})
        closedPrCount == Cardinality(closed)
        avgTurnaroundHours == IF closedPrCount > 0
                              THEN (total(closed) \div closedPrCount) \div (1000 * 60 * 60)
                              ELSE NullNum
    IN  [username |-> username,
         summary |-> [commitCount |-> Len(results["commits"].result),
                      prAuthoredCount |-> Len(userPRsAuthored),
                      issueAuthoredCount |-> Len(results["issues_authored"].result),
                      prCommentCount |-> Len(results["pr_comments"].result),
                      avgTurnaroundHours |-> avgTurnaroundHours,
                      avgCommentsBeforeShipping |-> 0,
                      totalOrgCommitCount |-> Len(allOrgCommitsData),
                      totalOrgPRCount |-> 0,
                      totalOrgIssueCount |-> 0],
         commits |-> results["commits"].result,
         pullRequestsAuthored |-> userPRsAuthored,
         issuesAuthored |-> results["issues_authored"].result,
         pullRequestCommentsMade |-> results["pr_comments"].result,
         aiSummary |-> "AI summary for " \o username \o " is pending implementation.",
         isStale |-> FALSE]

(***************************************************************************)
(* The requests the model sends.                                           *)
(***************************************************************************)
ReqSpace ==
    {[handler |-> h, username |-> IF h = "org" THEN Undefined ELSE u, since |-> s, until |-> un] :
        h \in Handlers, u \in Usernames, s \in SinceChoices, un \in UntilChoices}

NoRequest == [handler |-> "none", username |-> Undefined, since |-> Undefined, until |-> Undefined]

\* nothing of an earlier request is still running
Quiescent == ScanIdle /\ ~SearchesPending

NoScanArgs == [org |-> TARGET_ORG, targetRepos |-> <<>>, since |-> Undefined, until |-> Undefined]

\* the locals of a scan that is over are gone
ScanForgotten ==
    /\ scanPc' = "idle"
    /\ scanArgs' = NoScanArgs
    /\ memberLogins' = {}
    /\ repoQueue' = <<>>
    /\ activeFetches' = 0
    /\ fetches' = <<>>
    /\ allMatchingCommits' = <<>>
    /\ scanOut' = NoScanOut
    /\ ssoRejected' = FALSE

\* a request arrives at app.get('/api/org/dashboard') or
\* app.get('/api/user/:username/details') and passes the parameter checks
Request ==
    /\ hPc \in {"idle", "done"}
    /\ Quiescent
    /\ requests < MaxRequests
    /\ \E req \in ReqSpace : hReq' = req
    /\ hPc' = "check"
    /\ hTime' = now
    /\ hErr' = NoError
    /\ hErrFrom' = "none"
    /\ responses' = <<>>
    /\ catchEntry' = None
    /\ members' = <<>>
    /\ searchUsers' = <<>>
    /\ searches' = <<>>
    /\ requests' = requests + 1
    /\ calls' = 0
    /\ ScanForgotten
    /\ UNCHANGED <<fileVars, fnVars, now, ticks, cache, failures, reposHanded, TARGET_REPOS, foreignWrites,
                   lastFresh>>

\* the initial daily cache check of both handlers
InitialCheck ==
    /\ hPc = "check"
    /\ LET cacheKey == HandlerKey(hReq, TARGET_REPOS)
           r == readCache(cache, cacheKey, dailyCacheMaxAgeMs, now)
       IN  IF Truthy(r.data)
           THEN /\ responses' = Append(responses,
                                       CachedResponse(hReq.handler, r.data[1], r.timestamp))
                /\ hPc' = "done"
           ELSE /\ hPc' = "launch"
                /\ UNCHANGED responses
    /\ UNCHANGED <<fileVars, fnVars, now, ticks, cache, calls, failures, scanVars, TARGET_REPOS, hReq, hTime,
                   hErr, hErrFrom, catchEntry, members, searchUsers, searches, requests,
                   foreignWrites, lastFresh>>

\* handleGetOrgDashboard calls getOrgActivityData, which reads its cache first
AggBegin ==
    /\ hPc = "launch"
    /\ hReq.handler = "org"
    /\ LET cacheKey == OrgActivityCacheKey(TARGET_ORG, TARGET_REPOS, hReq.since, hReq.until)
           r == readCache(cache, cacheKey, ORG_ACTIVITY_CACHE_TTL, now)
       IN  IF Truthy(r.data) /\ ~r.stale
           THEN /\ responses' = Append(responses, FreshResponse(r.data[1]))
                /\ hPc' = "done"
           ELSE /\ hPc' = "members"
                /\ UNCHANGED responses
    /\ UNCHANGED <<fileVars, fnVars, now, ticks, cache, calls, failures, scanVars, TARGET_REPOS, hReq, hTime,
                   hErr, hErrFrom, catchEntry, members, searchUsers, searches, requests,
                   foreignWrites, lastFresh>>

\* const members = await getOrgMembers(org), then the searches of every member
\* are started
AggMembers ==
    /\ hPc = "members"
    /\ \E listOut \in ListMembersOutcomes, profOk \in ProfileOutcomes, diskOk \in DiskOutcomes :
         LET res == getOrgMembers(cache, TARGET_ORG, now, listOut, profOk, diskOk)
             failed == MembersFailures(cache, TARGET_ORG, now, listOut, profOk, diskOk)
         IN  /\ failures + failed <= MaxFailures
             /\ failures' = failures + failed
             /\ cache' = res.cache
             /\ calls' = calls + res.calls
             /\ IF res.threw
                THEN /\ hPc' = "catch"
                     /\ hErr' = res.error
                     /\ hErrFrom' = "members"
                     /\ UNCHANGED <<members, searchUsers, searches>>
                ELSE /\ hPc' = "await"
                     /\ members' = res.value
                     /\ searchUsers' = [i \in 1..Len(res.value) |-> res.value[i].login]
                     /\ searches' = StartSearches(res.value)
                     /\ UNCHANGED <<hErr, hErrFrom>>
    /\ UNCHANGED <<fileVars, fnVars, now, ticks, scanVars, TARGET_REPOS, hReq, hTime, responses, catchEntry,
                   requests, foreignWrites, lastFresh>>

\* handleGetUserDetails starts the four searches of the user and the scan
UserLaunch ==
    /\ hPc = "launch"
    /\ hReq.handler = "user"
    /\ hPc' = "await"
    /\ searchUsers' = <<hReq.username>>
    /\ searches' = StartSearches(<<hReq.username>>)
    /\ ScanBegin(TARGET_ORG, TARGET_REPOS, hReq.since, hReq.until)
    /\ UNCHANGED <<fileVars, fnVars, now, ticks, cache, calls, failures, reposHanded, TARGET_REPOS, hReq, hTime,
                   hErr, hErrFrom, responses, catchEntry, members, requests, foreignWrites,
                   lastFresh>>

\* the search of kind k for the i-th login runs; the first rejection rejects
\* the Promise.all the handler (or getOrgActivityData) awaits
Search(i, k) ==
    /\ i \in DOMAIN searches
    /\ SearchTurn(i, k)
    /\ searches[i][k].st = "pending"
    /\ \E out \in SearchOutcomes(k, searchUsers[i]), diskOk \in DiskOutcomes :
         LET res == searchUser(cache, k, TARGET_ORG, searchUsers[i], TARGET_REPOS,
                               hReq.since, now, out, diskOk)
             failed == SearchFailures(res, out, diskOk)
         IN  /\ failures + failed <= MaxFailures
             /\ failures' = failures + failed
             /\ cache' = res.cache
             /\ calls' = calls + res.calls
             /\ searches' = [searches EXCEPT ![i][k] = SearchSettled(res)]
             /\ IF SearchSettled(res).st = "failed" /\ hPc = "await"
                THEN /\ hPc' = "catch"
                     /\ hErr' = res.error
                     /\ hErrFrom' = "search"
                ELSE UNCHANGED <<hPc, hErr, hErrFrom>>
    /\ UNCHANGED <<fileVars, fnVars, now, ticks, scanVars, TARGET_REPOS, hReq, hTime, responses, catchEntry,
                   members, searchUsers, requests, foreignWrites, lastFresh>>

\* getOrgActivityData: all searches resolved; the aggregate is cached and
\* returned, and the handler sends it
AggFinish ==
    /\ hPc = "await"
    /\ hReq.handler = "org"
    /\ AllSearchesOk
    /\ \E diskOk \in DiskOutcomes :
         LET cacheKey == OrgActivityCacheKey(TARGET_ORG, TARGET_REPOS, hReq.since, hReq.until)
             result == OrgActivityData(members, searches)
         IN  /\ failures + Fault(diskOk) <= MaxFailures
             /\ failures' = failures + Fault(diskOk)
             /\ cache' = writeCache(cache, cacheKey, result, now, diskOk)
             /\ responses' = Append(responses, FreshResponse(result))
             /\ lastFresh' = [lastFresh EXCEPT ![hReq] = Some(result)]
    /\ hPc' = "done"
    /\ UNCHANGED <<fileVars, fnVars, now, ticks, calls, scanVars, TARGET_REPOS, hReq, hTime, hErr,
                   hErrFrom, catchEntry, members, searchUsers, searches, requests,
                   foreignWrites>>

\* getOrgMemberCommits threw: the Promise.all of handleGetUserDetails rejects
UserScanRejected ==
    /\ hPc = "await"
    /\ hReq.handler = "user"
    /\ scanPc = "threw"
    /\ hPc' = "catch"
    /\ hErr' = scanOut.error
    /\ hErrFrom' = "scan"
    /\ UNCHANGED <<fileVars, fnVars, now, ticks, cache, calls, failures, scanVars, TARGET_REPOS, hReq,
                   hTime, responses, catchEntry, members, searchUsers, searches, requests,
                   foreignWrites, lastFresh>>

\* handleGetUserDetails: the searches and the scan resolved; the payload is
\* assembled, cached under the handler's key and sent
UserFinish ==
    /\ hPc = "await"
    /\ hReq.handler = "user"
    /\ AllSearchesOk
    /\ scanPc = "returned"
    /\ \E diskOk \in DiskOutcomes :
         LET cacheKey == HandlerKey(hReq, TARGET_REPOS)
             responsePayload == UserPayload(hReq.username, searches[1], scanOut.value)
         IN  /\ failures + Fault(diskOk) <= MaxFailures
             /\ failures' = failures + Fault(diskOk)
             /\ cache' = writeCache(cache, cacheKey, responsePayload, now, diskOk)
             /\ responses' = Append(responses, FreshResponse(responsePayload))
             /\ lastFresh' = [lastFresh EXCEPT ![hReq] = Some(responsePayload)]
    /\ hPc' = "done"
    /\ UNCHANGED <<fileVars, fnVars, now, ticks, calls, scanVars, TARGET_REPOS, hReq, hTime, hErr,
                   hErrFrom, catchEntry, members, searchUsers, searches, requests,
                   foreignWrites>>

\* the catch block of both handlers: the stale read, then the stale response
\* or the error
HandlerCatch ==
    /\ hPc = "catch"
    /\ LET cacheKey == HandlerKey(hReq, TARGET_REPOS)
           r == readCache(cache, cacheKey, Infinity, now)
       IN  /\ catchEntry' = IF cacheKey \in DOMAIN cache THEN Some(cache[cacheKey]) ELSE None
           /\ responses' = Append(responses,
                                  IF Truthy(r.data) THEN StaleResponse(r.data[1], hErr, r.timestamp)
                                  ELSE ErrorResponse(hErr))
    /\ hPc' = "done"
    /\ UNCHANGED <<fileVars, fnVars, now, ticks, cache, calls, failures, scanVars, TARGET_REPOS, hReq,
                   hTime, hErr, hErrFrom, members, searchUsers, searches, requests,
                   foreignWrites, lastFresh>>

\* the cache directory is shared: another writer (a second server process on
\* the same directory handling the same request, a test that primes the
\* cache) stores an entry under the key of the running request through
\* writeCache.  The handler reads that key at two points, so the write is
\* placed right before one of them.
ForeignOrgData == OrgActivityData(<<>>, <<>>)

ForeignUserData(username) ==
    UserPayload(username, [k \in KindSet |-> [st |-> "ok", result |-> <<>>, error |-> NoError]], <<>>)

ForeignWrite ==
    /\ foreignWrites < MaxForeignWrites
    /\ hPc \in {"check", "catch"}
    /\ foreignWrites' = foreignWrites + 1
    /\ cache' = writeCache(cache, HandlerKey(hReq, TARGET_REPOS),
                           IF hReq.handler = "org" THEN ForeignOrgData
                           ELSE ForeignUserData(hReq.username),
                           now, TRUE)
    /\ UNCHANGED <<fileVars, fnVars, now, ticks, calls, failures, scanVars, TARGET_REPOS, hPc, hReq,
                   hTime, hErr, hErrFrom, responses, catchEntry, members, searchUsers,
                   searches, requests, lastFresh>>

(***************************************************************************)
(* The clock advances between requests, once there is an entry to age, and *)
(* during a fetch: an entry stored under the key of the request while the  *)
(* fetch was running has aged when the catch block reads it.               *)
(***************************************************************************)
Tick ==
    /\ \/ hPc \in {"idle", "done"} /\ Quiescent
       \/ hPc = "catch" /\ HandlerKey(hReq, TARGET_REPOS) \in DOMAIN cache
    /\ ticks < MaxTicks
    /\ cache # EmptyCache
    /\ \E d \in TickSteps : now' = now + d
    /\ ticks' = ticks + 1
    /\ UNCHANGED <<fileVars, fnVars, cache, calls, failures, scanVars, handlerVars>>

HandlerStep ==
    \/ Request
    \/ InitialCheck
    \/ AggBegin
    \/ AggMembers
    \/ UserLaunch
    \/ \E i \in DOMAIN searches : \E k \in KindSet : Search(i, k)
    \/ AggFinish
    \/ UserScanRejected
    \/ UserFinish
    \/ HandlerCatch

(***************************************************************************)
(* Spec: the server, one request at a time.                                *)
(***************************************************************************)
InitCommon ==
    /\ now = 0
    /\ ticks = 0
    /\ cache = EmptyCache
    /\ calls = 0
    /\ failures = 0

InitScan ==
    /\ scanPc = "idle"
    /\ scanArgs = NoScanArgs
    /\ memberLogins = {}
    /\ repoQueue = <<>>
    /\ activeFetches = 0
    /\ fetches = <<>>
    /\ allMatchingCommits = <<>>
    /\ scanOut = NoScanOut
    /\ ssoRejected = FALSE
    /\ reposHanded = 0

InitHandler ==
    /\ hPc = "idle"
    /\ hReq = NoRequest
    /\ hTime = 0
    /\ hErr = NoError
    /\ hErrFrom = "none"
    /\ responses = <<>>
    /\ catchEntry = None
    /\ members = <<>>
    /\ searchUsers = <<>>
    /\ searches = <<>>
    /\ requests = 0
    /\ foreignWrites = 0
    /\ lastFresh = [req \in ReqSpace |-> None]

\* the cache directory starts empty and no function has been applied
InitFile ==
    /\ files = [p \in {} |-> ""]
    /\ ops = <<>>
    /\ opCount = 0
    /\ persisted = EmptyCache
    /\ lastWrite = None
    /\ lastRead = None
    /\ tampered = 0

InitFn ==
    /\ fnIn = None
    /\ fnOut = None

Init ==
    /\ InitCommon /\ InitScan /\ InitHandler /\ InitFile /\ InitFn
    /\ TARGET_REPOS \in TargetRepoChoices

Next == HandlerStep \/ ScanStep \/ ForeignWrite \/ Tick

Spec == Init /\ [][Next]_vars

(***************************************************************************)
(* SpecScan: getOrgMemberCommits called directly, one scan at a time.  A   *)
(* scan of n repositories takes n + 1 out of a budget of MaxRepos + 1, so  *)
(* the longest list is scanned alone and shorter ones can be scanned       *)
(* again.  No request is served and the clock stands still.                *)
(***************************************************************************)
RepoPool == <<"a", "big", "b", "e", "e", "e", "e", "e", "e">>

ScanRepoLists ==
    {SubSeq(RepoPool, 1, n) : n \in {0, (MaxRepos - 1) \div 2, MaxRepos}}
        \cup {<<"a", "", "b">>, <<"">> \o SubSeq(RepoPool, 4, MaxRepos + 2)}

CallScan ==
    /\ ScanIdle
    /\ \E targetRepos \in ScanRepoLists, since \in SinceChoices :
         /\ reposHanded + Len(targetRepos) + 1 <= MaxRepos + 1
         /\ reposHanded' = reposHanded + Len(targetRepos) + 1
         /\ ScanBegin(TARGET_ORG, targetRepos, since, Undefined)
    /\ calls' = 0
    /\ UNCHANGED <<fileVars, fnVars, now, ticks, cache, failures, handlerVars>>

ScanInit == InitCommon /\ InitScan /\ InitHandler /\ InitFile /\ InitFn /\ TARGET_REPOS = <<>>

ScanNext == CallScan \/ ScanStep \/ Tick

SpecScan == ScanInit /\ [][ScanNext]_vars

(***************************************************************************)
(* Properties of the route handlers and the cached functions (Spec).       *)
(***************************************************************************)
\* the entry under key exists and is not older than maxAgeMs at time t
EntryFresh(c, key, maxAgeMs, t) == key \in DOMAIN c /\ t - c[key].timestamp <= maxAgeMs

\* the shapes of a response
HasPayload(body) == DOMAIN Payload(body) # {}

IsFreshResponse(r) ==
    /\ r.status = 200
    /\ "isStale" \in DOMAIN r.body /\ r.body.isStale = FALSE
    /\ "error" \notin DOMAIN r.body
    /\ HasPayload(r.body)

IsStaleResponse(r) ==
    /\ r.status = 200
    /\ "isStale" \in DOMAIN r.body /\ r.body.isStale = TRUE
    /\ "error" \in DOMAIN r.body
    /\ HasPayload(r.body)

IsErrorResponse(r) ==
    /\ r.status >= 400
    /\ "message" \in DOMAIN r.body
    /\ DOMAIN r.body \subseteq {"message", "ssoRequired", "ssoUrl", "rateLimitExceeded",
                                "resetTimestamp"}

Responded == hPc = "done"

InFlight == hPc \in {"check", "launch", "members", "await", "catch"}

\* C1 (as claimed): when an org-dashboard request whose fetch failed was
\* preceded by a request with the same parameters whose fresh fetch
\* succeeded, it is answered with the payload of that earlier fetch, marked
\* isStale = TRUE.
C1_StaleAfterEarlierSuccess ==
    (Responded /\ hReq.handler = "org" /\ hErr # NoError /\ lastFresh[hReq] # None)
        => /\ Len(responses) = 1
           /\ IsStaleResponse(responses[1])
           /\ Payload(responses[1].body) = lastFresh[hReq][1]

\* C2 (as claimed): when the member fetch of an org-dashboard request fails
\* with a RateLimitError and there is an entry under the handler's key, the
\* response carries that entry's payload with isStale = TRUE and an error
\* payload with rateLimitExceeded = TRUE and the resetTimestamp of the error.
C2_StaleCarriesClassifiedError ==
    (Responded /\ hReq.handler = "org" /\ hErrFrom = "members"
     /\ hErr.name = "RateLimitError" /\ catchEntry # None)
        => /\ Len(responses) = 1
           /\ IsStaleResponse(responses[1])
           /\ Payload(responses[1].body) = Payload(catchEntry[1].data)
           /\ "rateLimitExceeded" \in DOMAIN responses[1].body.error
           /\ responses[1].body.error.rateLimitExceeded = TRUE
           /\ "resetTimestamp" \in DOMAIN responses[1].body.error
           /\ responses[1].body.error.resetTimestamp = hErr.resetTimestamp

\* C3 (as claimed): a response that carries cached data older than the fresh
\* TTL of the handlers is marked isStale = TRUE and was sent after a fetch
\* that called the upstream and failed in the same request.
C3_OldDataOnlyAfterFailedFetch ==
    \A n \in DOMAIN responses :
        ("timestamp" \in DOMAIN responses[n].body
         /\ hTime - responses[n].body.timestamp > dailyCacheMaxAgeMs)
            => /\ responses[n].body.isStale = TRUE
               /\ hErr # NoError
               /\ calls > 0

\* the steps in which a cached function is called while the entry under its
\* key is not older than its TTL
HandlerFastPath ==
    LET cacheKey == HandlerKey(hReq, TARGET_REPOS)
    IN  (hPc = "check" /\ hPc' # "check"
         /\ EntryFresh(cache, cacheKey, dailyCacheMaxAgeMs, now))
            => /\ hPc' = "done"
               /\ Len(responses') = 1
               /\ IsFreshResponse(responses'[1])
               /\ Payload(responses'[1].body) = Payload(cache[cacheKey].data)
               /\ calls' = 0
               /\ searches' = <<>>
               /\ scanPc' = "idle"
               /\ cache' = cache

OrgActivityFastPath ==
    LET cacheKey == OrgActivityCacheKey(TARGET_ORG, TARGET_REPOS, hReq.since, hReq.until)
    IN  (hPc = "launch" /\ hReq.handler = "org" /\ hPc' # "launch"
         /\ EntryFresh(cache, cacheKey, ORG_ACTIVITY_CACHE_TTL, now))
            => /\ hPc' = "done"
               /\ Len(responses') = 1
               /\ IsFreshResponse(responses'[1])
               /\ Payload(responses'[1].body) = cache[cacheKey].data
               /\ calls' = calls
               /\ searches' = <<>>
               /\ cache' = cache

MemberCommitsFastPath ==
    LET cacheKey == CommitsCacheKey(TARGET_ORG, TARGET_REPOS, hReq.since, hReq.until)
    IN  (hPc = "launch" /\ hReq.handler = "user" /\ hPc' # "launch"
         /\ EntryFresh(cache, cacheKey, COMMITS_CACHE_TTL, now))
            => /\ scanPc' = "returned"
               /\ scanOut'.value = cache[cacheKey].data
               /\ calls' = calls
               /\ cache' = cache

MembersFastPath ==
    LET cacheKey == MembersCacheKey(TARGET_ORG)
        fresh == EntryFresh(cache, cacheKey, MEMBERS_CACHE_TTL, now)
    IN  /\ (hPc = "members" /\ hPc' # "members" /\ fresh)
              => /\ hPc' = "await"
                 /\ members' = cache[cacheKey].data
                 /\ calls' = calls
                 /\ cache' = cache
        /\ (scanPc = "members" /\ scanPc' # "members" /\ fresh)
              => /\ scanPc' = "draining"
                 /\ memberLogins' = {toLowerCase(cache[cacheKey].data[i].login) :
                                        i \in DOMAIN cache[cacheKey].data}
                 /\ calls' - calls = Cardinality({i \in DOMAIN fetches' :
                                                     fetches'[i].st = "inflight"})
                 /\ cache' = cache

SearchFastPath ==
    \A i \in DOMAIN searches \cap DOMAIN searches' : \A k \in KindSet :
        LET cacheKey == SearchKey(k, TARGET_ORG, searchUsers[i], TARGET_REPOS, hReq.since)
        IN  (searches[i][k].st = "pending" /\ searches'[i][k].st # "pending"
             /\ EntryFresh(cache, cacheKey, USER_ACTIVITY_CACHE_TTL, now))
                => /\ searches'[i][k] = [st |-> "ok", result |-> cache[cacheKey].data,
                                      error |-> NoError]
                   /\ calls' = calls
                   /\ cache' = cache

\* C4: whenever a handler, getOrgActivityData, getOrgMemberCommits,
\* getOrgMembers or a search is called while the entry under its key is not
\* older than its TTL, it returns the payload of that entry (the handlers
\* marked isStale = FALSE), issues no upstream request and starts nothing
\* that would.
C4_FastPath ==
    [][HandlerFastPath /\ OrgActivityFastPath /\ MemberCommitsFastPath
       /\ MembersFastPath /\ SearchFastPath]_vars

\* C4 witness: a request was answered from an aged entry that is not older
\* than the TTL, without an upstream request.
C4_Witness ==
    /\ Responded
    /\ Len(responses) = 1
    /\ "timestamp" \in DOMAIN responses[1].body
    /\ responses[1].body.isStale = FALSE
    /\ hTime - responses[1].body.timestamp > 0
    /\ hTime - responses[1].body.timestamp <= dailyCacheMaxAgeMs
    /\ calls = 0

\* C5: when the fetch of a request failed and there was no entry under the
\* handler's key, the one response is the classified error: an error status,
\* the error's message and class fields, no payload and no isStale mark.
C5_NoEntryPropagatesError ==
    (Responded /\ hErr # NoError /\ catchEntry = None)
        => /\ Len(responses) = 1
           /\ IsErrorResponse(responses[1])
           /\ "isStale" \notin DOMAIN responses[1].body
           /\ hErr \in {handleOctokitError(e) : e \in UpstreamErrors}
           /\ responses[1].body.message = hErr.message
           /\ (hErr.name = "SamlSsoError"
                 => /\ responses[1].status = 403
                    /\ "ssoRequired" \in DOMAIN responses[1].body
                    /\ responses[1].body.ssoRequired = TRUE
                    /\ responses[1].body.ssoUrl = hErr.ssoUrl)
           /\ (hErr.name = "RateLimitError"
                 => /\ responses[1].status = 429
                    /\ "rateLimitExceeded" \in DOMAIN responses[1].body
                    /\ responses[1].body.rateLimitExceeded = TRUE
                    /\ responses[1].body.resetTimestamp = hErr.resetTimestamp)
           /\ (hErr.name \notin {"SamlSsoError", "RateLimitError"}
                 => responses[1].status = IF hErr.status # NoStatus THEN hErr.status
                                          ELSE 500)

\* C5 witness: a rate-limited fetch with no entry under the handler's key
\* was answered with status 429.
C5_Witness ==
    /\ Responded
    /\ hErr.name = "RateLimitError"
    /\ catchEntry = None
    /\ Len(responses) = 1
    /\ responses[1].status = 429

\* some step of the scan changes its state: a page or a .finally is due, or
\* the drain loop ends
ScanCanProceed ==
    \/ scanPc = "members"
    \/ /\ scanPc = "draining"
       /\ \/ \E i \in DOMAIN fetches : fetches[i].st \in {"inflight", "settled"}
          \/ ~Draining(activeFetches, repoQueue)

\* some step of the running request, or of what it awaits, changes the state
RequestCanProceed ==
    \/ hPc \in {"check", "launch", "members", "catch"}
    \/ /\ hPc = "await"
       /\ \/ SearchesPending
          \/ hReq.handler = "org" /\ AllSearchesOk
          \/ hReq.handler = "user" /\ scanPc = "threw"
          \/ hReq.handler = "user" /\ AllSearchesOk /\ scanPc = "returned"
          \/ hReq.handler = "user" /\ ScanCanProceed

\* C6 (as claimed): a request is answered at most once, an answered request
\* got exactly one response of exactly one of the three shapes, and a request
\* that is not answered yet can still take a step (it does not hang).
C6_ResolvesExactlyOnce ==
    /\ Len(responses) <= 1
    /\ Responded
         => /\ Len(responses) = 1
            /\ \/ IsFreshResponse(responses[1])
               \/ IsStaleResponse(responses[1])
               \/ IsErrorResponse(responses[1])
    /\ InFlight => RequestCanProceed

(***************************************************************************)
(* Properties of the repository scan (checked under SpecScan).             *)
(***************************************************************************)
\* the multiset of the elements of a sequence
BagOfSeq(xs) ==
    [x \in {xs[i] : i \in DOMAIN xs} |-> Cardinality({i \in DOMAIN xs : xs[i] = x})]

\* all commits of the repository at position i that match a member
MatchingCommitsOf(i) ==
    pageMemberCommits(RepoCommits(scanArgs.targetRepos[i]), memberLogins)

\* the matching commits of the repositories at the positions idxs
RECURSIVE MatchingCommitsOfAll(_)
MatchingCommitsOfAll(idxs) ==
    IF idxs = {} THEN <<>>
    ELSE LET i == CHOOSE j \in idxs : \A k \in idxs : j <= k
         IN  MatchingCommitsOf(i) \o MatchingCommitsOfAll(idxs \ {i})

\* the tasks whose promise resolved
ResolvedTasks == {i \in DOMAIN fetches : fetches[i].st \in {"settled", "done"}
                                         /\ fetches[i].result # None}

\* the tasks whose promise rejected
RejectedTasks == {i \in DOMAIN fetches : fetches[i].st \in {"settled", "done"}
                                         /\ fetches[i].result = None}

InFlightTasks == {i \in DOMAIN fetches : fetches[i].st = "inflight"}

ScanReturnedFresh == scanPc = "returned" /\ ~scanOut.hit

\* C7: during a scan the number of per-repo commit fetches in flight at the
\* same time never exceeds 5, whatever the length of the list and the order
\* in which the fetches complete.
C7_AtMostFiveInFlight == Cardinality(InFlightTasks) <= 5

\* C7 witness: five fetches are in flight while repositories are still queued.
C7_Witness == Cardinality(InFlightTasks) = 5 /\ Len(repoQueue) > 0

\* C8 (as claimed): when a repository's fetch fails with an error classified
\* as SsoRequired, the scan does not return a list.
C8_SsoFailureAbortsScan == ssoRejected => ~ScanReturnedFresh

\* C9: a failure that is not classified as SsoRequired never makes the scan
\* throw, and the list the scan returns is the merge of all matching commits
\* of the repositories that did not fail; a failed repository contributes
\* nothing, also not the pages fetched before the failure.
C9_OtherFailureSkipsRepo ==
    /\ (scanPc = "threw" => fetches = <<>>)
    /\ (ScanReturnedFresh /\ ~ssoRejected
          => BagOfSeq(scanOut.value) = BagOfSeq(MatchingCommitsOfAll(ResolvedTasks)))

\* C9 witness: a scan returned commits although the fetch of one repository
\* failed on its second page, after a first page with member commits.
C9_Witness ==
    /\ ScanReturnedFresh /\ ~ssoRejected
    /\ Len(scanOut.value) > 0
    /\ \E i \in RejectedTasks : fetches[i].page = 2 /\ Len(fetches[i].repoCommits) > 0

\* C10: the scan returns, and writes its cache entry, only when the queue is
\* empty and no fetch is in flight or awaiting its handlers, and the list it
\* returns (and caches) then holds the commits of every resolved fetch.
C10_ReturnsOnlyWhenDrained ==
    ScanReturnedFresh =>
        /\ Len(repoQueue) = 0
        /\ \A i \in DOMAIN fetches : fetches[i].st = "done"
        /\ \A i \in ResolvedTasks :
             \A c \in DOMAIN BagOfSeq(fetches[i].result[1]) :
                /\ c \in DOMAIN BagOfSeq(scanOut.value)
                /\ BagOfSeq(fetches[i].result[1])[c] <= BagOfSeq(scanOut.value)[c]
        /\ LET key == CommitsCacheKey(scanArgs.org, scanArgs.targetRepos,
                                      scanArgs.since, scanArgs.until)
           IN  (key \in DOMAIN cache /\ cache[key].timestamp = now)
                  => cache[key].data = scanOut.value

\* C10 witness: a scan of more repositories than the cap returned a non-empty
\* list and cached it.
C10_Witness ==
    /\ ScanReturnedFresh
    /\ Len(scanArgs.targetRepos) > MAX_CONCURRENT_REPO_FETCHES
    /\ Len(scanOut.value) > 0
    /\ CommitsCacheKey(scanArgs.org, scanArgs.targetRepos, scanArgs.since, scanArgs.until)
         \in DOMAIN cache

(***************************************************************************)
(* JavaScript values as the cache files hold them, JSON.stringify and      *)
(* JSON.parse.  A value is a tagged record; the properties of an object    *)
(* are the pairs <<key, value>> in insertion order.                        *)
(***************************************************************************)
JNull == [t |-> "null"]

JUndefined == [t |-> "undefined"]

JBool(b) == [t |-> "boolean", b |-> b]

JNum(n) == [t |-> "number", n |-> n]

JNaN == [t |-> "NaN"]

JStr(s) == [t |-> "string", s |-> s]

JArr(xs) == [t |-> "array", xs |-> xs]

JObj(kv) == [t |-> "object", kv |-> kv]

DQuote == "\""

Backslash == "\\"

Newline == "\n"

\* the gap of JSON.stringify(value, null, 2) at nesting depth d
RECURSIVE Indent(_)
Indent(d) == IF d = 0 THEN "" ELSE "  " \o Indent(d - 1)

\* String(n) of an integer
RECURSIVE DigitsOf(_)
DigitsOf(n) == IF n < 10 THEN Chr(48 + n) ELSE DigitsOf(n \div 10) \o Chr(48 + (n % 10))

NumberToString(n) == IF n < 0 THEN "-" \o DigitsOf(0 - n) ELSE DigitsOf(n)

\* the quoted form of a string: the quote, the backslash and the newline are
\* escaped
RECURSIVE EscapeChars(_)
EscapeChars(s) ==
    IF s = "" THEN ""
    ELSE LET c == SubSeq(s, 1, 1)
             e == IF c = DQuote THEN Backslash \o DQuote
                  ELSE IF c = Backslash THEN Backslash \o Backslash
                  ELSE IF c = Newline THEN Backslash \o "n"
                  ELSE c
         IN  e \o EscapeChars(SubSeq(s, 2, Len(s)))

QuoteString(s) == DQuote \o EscapeChars(s) \o DQuote

\* JSON.stringify(v, null, 2) of a value at nesting depth d; an undefined
\* property is left out, an undefined array element is written as null
RECURSIVE stringify(_, _)
stringify(v, d) ==
    CASE v.t = "null"      -> "null"
      [] v.t = "undefined" -> "null"
      [] v.t = "NaN"       -> "null"
      [] v.t = "boolean"   -> IF v.b THEN "true" ELSE "false"
      [] v.t = "number"    -> NumberToString(v.n)
      [] v.t = "string"    -> QuoteString(v.s)
      [] v.t = "array"     ->
            IF v.xs = <<>> THEN "[]"
            ELSE "[" \o Newline
                 \o join([i \in 1..Len(v.xs) |-> Indent(d + 1) \o stringify(v.xs[i], d + 1)],
                         "," \o Newline)
                 \o Newline \o Indent(d) \o "]"
      [] v.t = "object"    ->
            LET kept == SelectSeq(v.kv, LAMBDA p : p[2].t # "undefined")
            IN  IF kept = <<>> THEN "{}"
                ELSE "{" \o Newline
                     \o join([i \in 1..Len(kept) |->
                                Indent(d + 1) \o QuoteString(kept[i][1]) \o ": "
                                \o stringify(kept[i][2], d + 1)],
                             "," \o Newline)
                     \o Newline \o Indent(d) \o "}"

\* JSON.parse.  A parser result is [ok, v, i]: whether a value was read, the
\* value, and the position after it.
NoParse == [ok |-> FALSE, v |-> JUndefined, i |-> 0]

Parsed(v, i) == [ok |-> TRUE, v |-> v, i |-> i]

At(s, i) == IF i <= Len(s) THEN SubSeq(s, i, i) ELSE ""

IsWhitespace(c) == c = " " \/ c = Newline

RECURSIVE SkipWhitespace(_, _)
SkipWhitespace(s, i) == IF IsWhitespace(At(s, i)) THEN SkipWhitespace(s, i + 1) ELSE i

DecimalDigits == {"0", "1", "2", "3", "4", "5", "6", "7", "8", "9"}

IsDecimalDigit(c) == c \in DecimalDigits

\* the digits from position i on
RECURSIVE ParseInt(_, _, _)
ParseInt(s, i, acc) ==
    IF IsDecimalDigit(At(s, i)) THEN ParseInt(s, i + 1, acc * 10 + (Ord(At(s, i)) - 48))
    ELSE [n |-> acc, i |-> i]

\* a JSON number without fraction and exponent: -? (0 | [1-9][0-9]*)
ParseNumber(s, i) ==
    LET neg == At(s, i) = "-"
        j == IF neg THEN i + 1 ELSE i
        r == ParseInt(s, j, 0)
    IN  IF ~IsDecimalDigit(At(s, j)) THEN NoParse
        ELSE IF At(s, j) = "0" /\ IsDecimalDigit(At(s, j + 1)) THEN NoParse
        ELSE IF At(s, r.i) \in {".", "e", "E"} THEN NoParse
        ELSE Parsed(JNum(IF neg THEN 0 - r.n ELSE r.n), r.i)

\* the characters of a string literal after the opening quote
RECURSIVE ParseChars(_, _, _)
ParseChars(s, i, acc) ==
    LET c == At(s, i)
        n == At(s, i + 1)
    IN  IF c = "" \/ c = Newline THEN NoParse
        ELSE IF c = DQuote THEN Parsed(JStr(acc), i + 1)
        ELSE IF c = Backslash
        THEN IF n = DQuote \/ n = Backslash \/ n = "/" THEN ParseChars(s, i + 2, acc \o n)
             ELSE IF n = "n" THEN ParseChars(s, i + 2, acc \o Newline)
             ELSE NoParse
        ELSE ParseChars(s, i + 1, acc \o c)

RECURSIVE ParseValue(_, _)
RECURSIVE ParseElements(_, _, _)
RECURSIVE ParseMembers(_, _, _)

\* the elements of an array after the first, up to the closing bracket
ParseElements(s, i, acc) ==
    LET j == SkipWhitespace(s, i)
    IN  IF At(s, j) = "]" THEN Parsed(JArr(acc), j + 1)
        ELSE IF At(s, j) # "," THEN NoParse
        ELSE LET e == ParseValue(s, j + 1)
             IN  IF ~e.ok THEN NoParse ELSE ParseElements(s, e.i, Append(acc, e.v))

\* one member "key": value at position i (after whitespace)
ParseMember(s, i) ==
    LET j == SkipWhitespace(s, i)
        k == IF At(s, j) = DQuote THEN ParseChars(s, j + 1, "") ELSE NoParse
        c == IF k.ok THEN SkipWhitespace(s, k.i) ELSE 0
        e == IF k.ok /\ At(s, c) = ":" THEN ParseValue(s, c + 1) ELSE NoParse
    IN  IF e.ok THEN Parsed(<<k.v.s, e.v>>, e.i) ELSE NoParse

\* the members of an object after the first, up to the closing brace
ParseMembers(s, i, acc) ==
    LET j == SkipWhitespace(s, i)
    IN  IF At(s, j) = "}" THEN Parsed(JObj(acc), j + 1)
        ELSE IF At(s, j) # "," THEN NoParse
        ELSE LET m == ParseMember(s, j + 1)
             IN  IF ~m.ok THEN NoParse ELSE ParseMembers(s, m.i, Append(acc, m.v))

ParseLiteral(s, i, word, v) ==
    IF i + Len(word) - 1 <= Len(s) /\ SubSeq(s, i, i + Len(word) - 1) = word
    THEN Parsed(v, i + Len(word)) ELSE NoParse

ParseValue(s, i) ==
    LET j == SkipWhitespace(s, i)
        c == At(s, j)
    IN  IF c = "{"
        THEN LET k == SkipWhitespace(s, j + 1)
                 m == ParseMember(s, k)
             IN  IF At(s, k) = "}" THEN Parsed(JObj(<<>>), k + 1)
                 ELSE IF ~m.ok THEN NoParse
                 ELSE ParseMembers(s, m.i, <<m.v>>)
        ELSE IF c = "["
        THEN LET k == SkipWhitespace(s, j + 1)
                 e == ParseValue(s, k)
             IN  IF At(s, k) = "]" THEN Parsed(JArr(<<>>), k + 1)
                 ELSE IF ~e.ok THEN NoParse
                 ELSE ParseElements(s, e.i, <<e.v>>)
        ELSE IF c = DQuote THEN ParseChars(s, j + 1, "")
        ELSE IF c = "t" THEN ParseLiteral(s, j, "true", JBool(TRUE))
        ELSE IF c = "f" THEN ParseLiteral(s, j, "false", JBool(FALSE))
        ELSE IF c = "n" THEN ParseLiteral(s, j, "null", JNull)
        ELSE IF c = "-" \/ IsDecimalDigit(c) THEN ParseNumber(s, j)
        ELSE NoParse

\* JSON.parse(text): NoParse stands for the SyntaxError
parse(text) ==
    LET r == ParseValue(text, 1)
    IN  IF r.ok /\ SkipWhitespace(text, r.i) = Len(text) + 1 THEN r ELSE NoParse


(***************************************************************************)
(* The cache directory, file by file.  writeCache and readCache build the  *)
(* path of the entry with path.join(CACHE_DIR, `${key}.json`), which       *)
(* normalises the path: a "/" in the key starts a directory, "." and ""    *)
(* segments vanish, ".." leaves the directory it follows.                  *)
(***************************************************************************)
CACHE_DIR == "/app/.cache/github"

\* the directories that exist: ensureCacheDir makes CACHE_DIR and its parents
Directories == {"/", "/app", "/app/.cache", "/app/.cache/github"}

RECURSIVE SplitSegments(_, _, _)
SplitSegments(s, i, seg) ==
    IF i > Len(s) THEN <<seg>>
    ELSE IF CharAt(s, i) = "/" THEN <<seg>> \o SplitSegments(s, i + 1, "")
    ELSE SplitSegments(s, i + 1, seg \o CharAt(s, i))

RECURSIVE NormalizeSegments(_, _)
NormalizeSegments(segs, acc) ==
    IF segs = <<>> THEN acc
    ELSE IF Head(segs) \in {"", "."} THEN NormalizeSegments(Tail(segs), acc)
    ELSE IF Head(segs) = ".."
    THEN NormalizeSegments(Tail(segs), IF acc = <<>> THEN acc ELSE SubSeq(acc, 1, Len(acc) - 1))
    ELSE NormalizeSegments(Tail(segs), Append(acc, Head(segs)))

pathJoin(dir, name) ==
    "/" \o join(NormalizeSegments(SplitSegments(dir \o "/" \o name, 1, ""), <<>>), "/")

dirname(p) ==
    LET segs == NormalizeSegments(SplitSegments(p, 1, ""), <<>>)
    IN  IF segs = <<>> THEN "/" ELSE "/" \o join(SubSeq(segs, 1, Len(segs) - 1), "/")

filePath(key) == pathJoin(CACHE_DIR, key \o ".json")

\* open(filePath, 'w') of fs.promises.writeFile: ENOENT when the directory
\* of the path does not exist, EISDIR when the path is a directory
CanCreate(p) == dirname(p) \in Directories /\ p \notin Directories

(***************************************************************************)
(* What readCache makes of the bytes of the file.                          *)
(***************************************************************************)
\* cacheEntry.timestamp, cacheEntry.data: a property of a parsed value; of a
\* repeated member the last one counts, a value that is no object has none
RECURSIVE LookupMember(_, _, _)
LookupMember(kv, name, i) ==
    IF i = 0 THEN JUndefined
    ELSE IF kv[i][1] = name THEN kv[i][2]
    ELSE LookupMember(kv, name, i - 1)

GetProp(v, name) == IF v.t = "object" THEN LookupMember(v.kv, name, Len(v.kv)) ELSE JUndefined

\* reading a property of null throws a TypeError
ThrowsOnProp(v) == v.t \in {"null", "undefined"}

\* the number the subtraction Date.now() - cacheEntry.timestamp turns its
\* right operand into; NaN when it is none
NotANumber == [nan |-> TRUE, n |-> 0]

Number(n) == [nan |-> FALSE, n |-> n]

StringToNumber(s) ==
    IF s = "" THEN Number(0)
    ELSE LET r == ParseNumber(s, 1)
         IN  IF r.ok /\ r.i = Len(s) + 1 THEN Number(r.v.n) ELSE NotANumber

RECURSIVE ToNumber(_)
ToNumber(v) ==
    CASE v.t = "number"    -> Number(v.n)
      [] v.t = "null"      -> Number(0)
      [] v.t = "boolean"   -> Number(IF v.b THEN 1 ELSE 0)
      [] v.t = "string"    -> StringToNumber(v.s)
      [] v.t = "array"     -> IF Len(v.xs) = 0 THEN Number(0)
                              ELSE IF Len(v.xs) > 1 THEN NotANumber
                              ELSE IF v.xs[1].t \in {"null", "undefined"} THEN Number(0)
                              ELSE IF v.xs[1].t \in {"number", "string", "array"}
                              THEN ToNumber(v.xs[1])
                              ELSE NotANumber
      [] OTHER             -> NotANumber

\* Date.now() - cacheEntry.timestamp > maxAgeMs; a comparison with NaN is false
IsExpired(cacheEntry, maxAgeMs, t) ==
    LET ts == ToNumber(GetProp(cacheEntry, "timestamp"))
    IN  ~ts.nan /\ t - ts.n > maxAgeMs

\* fs.promises.readFile: the bytes, or None for ENOENT
readFile(fs, p) == IF p \in DOMAIN fs THEN Some(fs[p]) ELSE None

\* the try block up to JSON.parse: the parsed cacheEntry, or no value when
\* readFile or JSON.parse threw
ParseFile(fileContent) == IF fileContent = None THEN NoParse ELSE parse(fileContent[1])

\* readCache of index.tsx: { data, stale, timestamp }
FileMissFlaggedStale == [data |-> JNull, stale |-> TRUE, timestamp |-> JNull]

FileMiss == [data |-> JNull, stale |-> FALSE, timestamp |-> JNull]

readCacheFileHidesExpired(r, maxAgeMs, t) ==
    IF ~CACHE_ENABLED \/ ~r.ok \/ ThrowsOnProp(r.v) THEN FileMiss
    ELSE [data |-> IF IsExpired(r.v, maxAgeMs, t) THEN JNull ELSE GetProp(r.v, "data"),
          stale |-> IsExpired(r.v, maxAgeMs, t),
          timestamp |-> GetProp(r.v, "timestamp")]

readCacheFile(r, maxAgeMs, t) ==
    IF ~CACHE_ENABLED \/ ~r.ok \/ ThrowsOnProp(r.v) THEN FileMiss
    ELSE [data |-> GetProp(r.v, "data"),
          stale |-> IsExpired(r.v, maxAgeMs, t),
          timestamp |-> GetProp(r.v, "timestamp")]

\* readCache of utils/cache.ts: { data, stale }, options.allowStale
OptionsMiss == [data |-> JNull, stale |-> FALSE]

readCacheWithOptionsAlwaysData(r, maxAgeMs, allowStale, t) ==
    IF ~CACHE_ENABLED \/ ~r.ok \/ ThrowsOnProp(r.v) THEN OptionsMiss
    ELSE [data |-> GetProp(r.v, "data"), stale |-> IsExpired(r.v, maxAgeMs, t)]

readCacheWithOptions(r, maxAgeMs, allowStale, t) ==
    IF ~CACHE_ENABLED \/ ~r.ok \/ ThrowsOnProp(r.v) THEN OptionsMiss
    ELSE IF IsExpired(r.v, maxAgeMs, t)
    THEN [data |-> IF allowStale THEN GetProp(r.v, "data") ELSE JNull, stale |-> TRUE]
    ELSE [data |-> GetProp(r.v, "data"), stale |-> FALSE]

\* the text writeCache hands to writeFile
cacheEntryOf(data, t) == JObj(<<<<"timestamp", JNum(t)>>, <<"data", data>>>>)

EntryText(data, t) == stringify(cacheEntryOf(data, t), 0)

(***************************************************************************)
(* Calls of writeCache and readCache, as the event loop runs them.  The    *)
(* synchronous start of a call is one step; each file operation it awaits  *)
(* is a later step, and steps of other calls come in between.              *)
(* fs.promises.writeFile opens the file with flag 'w', which creates or    *)
(* truncates it, then writes the text at offset 0 through its own file     *)
(* descriptor, then closes.  fs.promises.readFile gives the bytes that     *)
(* are in the file when it reads.                                          *)
(***************************************************************************)
CacheKeys == {"k", "a/k"}

Payloads ==
    { JObj(<<<<"message", JStr("hello")>>,
             <<"items", JArr(<<JNum(1), JBool(TRUE), JNull, JArr(<<>>), JObj(<<>>)>>)>>>>),
      JStr("a\"b\\c\nd") }

MaxAgeChoices == {0, ORG_ACTIVITY_CACHE_TTL, Infinity}

\* bytes another program leaves in the file of key "k"
ForeignBytes == {"this is not json", "null", "{}", "{\"data\": [1]}"}

WriteOp(key, data, t) ==
    [kind |-> "write", key |-> key, data |-> data, timestamp |-> t,
     text |-> EntryText(data, t), pc |-> "open", alone |-> ops = <<>>, after |-> None,
     prev |-> None, during |-> {}]

\* alone, after, prev, during are history: no other call has run during this
\* one, the writeCache that settled right before the call, the entry
\* persisted when the call began, and the entries of the writeCache calls
\* of the same key that were running during the call
ReadOp(key) ==
    [kind |-> "read", key |-> key, data |-> JUndefined, timestamp |-> 0,
     text |-> "", pc |-> "read", alone |-> ops = <<>>, after |-> lastWrite,
     prev |-> IF key \in DOMAIN persisted THEN Some(persisted[key]) ELSE None,
     during |-> {[timestamp |-> ops[j].timestamp, data |-> ops[j].data] :
                   j \in {j \in DOMAIN ops : ops[j].kind = "write" /\ ops[j].key = key}}]

Without(s, i) == SubSeq(s, 1, i - 1) \o SubSeq(s, i + 1, Len(s))

\* a write of n bytes at offset 0 leaves the bytes beyond n as they are
Overwrite(old, text) ==
    text \o (IF Len(old) > Len(text) THEN SubSeq(old, Len(text) + 1, Len(old)) ELSE "")

\* a writeCache call that ran alone has settled
Settled(op, ok) ==
    IF op.alone
    THEN Some([key |-> op.key, data |-> op.data, timestamp |-> op.timestamp, ok |-> ok])
    ELSE None

CallWrite ==
    /\ opCount < MaxOps
    /\ \E key \in CacheKeys, data \in Payloads :
         ops' = Append([j \in DOMAIN ops |->
                          IF ops[j].kind = "read" /\ ops[j].key = key
                          THEN [ops[j] EXCEPT !.alone = FALSE,
                                              !.during = @ \cup {[timestamp |-> now, data |-> data]}]
                          ELSE [ops[j] EXCEPT !.alone = FALSE]],
                       WriteOp(key, data, now))
    /\ opCount' = opCount + 1
    /\ lastWrite' = None
    /\ lastRead' = None
    /\ UNCHANGED <<now, ticks, cache, calls, failures, scanVars, handlerVars, fnVars,
                   files, persisted, tampered>>

CallRead ==
    /\ opCount < MaxOps
    /\ \E key \in CacheKeys :
         ops' = Append([j \in DOMAIN ops |-> [ops[j] EXCEPT !.alone = FALSE]], ReadOp(key))
    /\ opCount' = opCount + 1
    /\ lastRead' = None
    /\ UNCHANGED <<now, ticks, cache, calls, failures, scanVars, handlerVars, fnVars,
                   files, persisted, lastWrite, tampered>>

\* the catch block of writeCache: the failure is logged, the call settles
WriteFailed(i) ==
    /\ ops' = Without(ops, i)
    /\ lastWrite' = Settled(ops[i], FALSE)
    /\ UNCHANGED <<files, persisted>>

WriteOpen(i) ==
    /\ ops[i].kind = "write" /\ ops[i].pc = "open"
    /\ IF ~CanCreate(filePath(ops[i].key))
       THEN WriteFailed(i) /\ UNCHANGED failures
       ELSE \/ /\ files' = (filePath(ops[i].key) :> "") @@ files
               /\ ops' = [ops EXCEPT ![i].pc = "data"]
               /\ lastWrite' = None
               /\ UNCHANGED <<persisted, failures>>
            \/ /\ failures < MaxFailures
               /\ failures' = failures + 1
               /\ WriteFailed(i)
    /\ lastRead' = None
    /\ UNCHANGED <<now, ticks, cache, calls, scanVars, handlerVars, fnVars,
                   opCount, tampered>>

WriteData(i) ==
    /\ ops[i].kind = "write" /\ ops[i].pc = "data"
    /\ \/ /\ files' = [files EXCEPT ![filePath(ops[i].key)] = Overwrite(@, ops[i].text)]
          /\ ops' = Without(ops, i)
          /\ persisted' = writeCache(persisted, ops[i].key, ops[i].data, ops[i].timestamp, TRUE)
          /\ lastWrite' = Settled(ops[i], TRUE)
          /\ UNCHANGED failures
       \/ /\ failures < MaxFailures
          /\ failures' = failures + 1
          /\ WriteFailed(i)
    /\ lastRead' = None
    /\ UNCHANGED <<now, ticks, cache, calls, scanVars, handlerVars, fnVars,
                   opCount, tampered>>

\* the rest of readCache after readFile settled; the arguments that play
\* no part before are drawn here
ReadSettle(i) ==
    /\ ops[i].kind = "read"
    /\ LET fileContent == readFile(files, filePath(ops[i].key))
           r == ParseFile(fileContent)
       IN  \E maxAgeMs \in MaxAgeChoices, options \in {"none", "default", "allowStale"} :
             lastRead' = Some([key |-> ops[i].key, maxAgeMs |-> maxAgeMs, options |-> options,
                               at |-> now, fileContent |-> fileContent,
                               result |-> IF options = "none"
                                          THEN readCacheFile(r, maxAgeMs, now)
                                          ELSE readCacheWithOptions(r, maxAgeMs,
                                                                    options = "allowStale", now),
                               roundTrip |-> ops[i].alone /\ ops[i].after # None
                                             /\ ops[i].after = lastWrite,
                               after |-> ops[i].after, prev |-> ops[i].prev,
                               during |-> ops[i].during,
                               clean |-> failures = 0 /\ tampered = 0])
    /\ ops' = Without(ops, i)
    /\ UNCHANGED <<now, ticks, cache, calls, failures, scanVars, handlerVars, fnVars,
                   files, opCount, persisted, lastWrite, tampered>>

\* another program replaces the bytes of the file of key "k", while no
\* call is running
Tamper ==
    /\ tampered < MaxTampers
    /\ ops = <<>>
    /\ filePath("k") \in DOMAIN files
    /\ \E bytes \in ForeignBytes : files' = [files EXCEPT ![filePath("k")] = bytes]
    /\ tampered' = tampered + 1
    /\ lastWrite' = None
    /\ lastRead' = None
    /\ UNCHANGED <<now, ticks, cache, calls, failures, scanVars, handlerVars, fnVars,
                   ops, opCount, persisted>>

\* the clock advances between calls, by the time to live of the aggregate:
\* an entry is as old as its time to live after one step, older after two
FileTick ==
    /\ ticks < MaxTicks
    /\ ops = <<>>
    /\ DOMAIN files # {}
    /\ now' = now + ORG_ACTIVITY_CACHE_TTL
    /\ ticks' = ticks + 1
    /\ lastWrite' = None
    /\ lastRead' = None
    /\ UNCHANGED <<cache, calls, failures, scanVars, handlerVars, fnVars,
                   files, ops, opCount, persisted, tampered>>

CacheNext ==
    \/ CallWrite
    \/ CallRead
    \/ \E i \in DOMAIN ops : WriteOpen(i)
    \/ \E i \in DOMAIN ops : WriteData(i)
    \/ \E i \in DOMAIN ops : ReadSettle(i)
    \/ Tamper
    \/ FileTick

SpecCache == ScanInit /\ [][CacheNext]_vars

(***************************************************************************)
(* Claims about the cache files (SpecCache).                               *)
(***************************************************************************)
\* the readCache that settled in the last step followed right after a
\* writeCache of its key: that call settled, the readCache began, and
\* nothing else happened in between
FollowsWrite ==
    /\ lastRead # None
    /\ lastRead[1].roundTrip
    /\ lastRead[1].after[1].key = lastRead[1].key

\* C11: writeCache(key, v) followed immediately by readCache(key, ttl) with
\* any ttl >= 0 returns data equal to v with stale = false, for every key
\* and payload, in a run without a failing disk and without foreign bytes.
C11_RoundTrip ==
    (FollowsWrite /\ lastRead[1].clean) =>
        /\ lastRead[1].result.data = lastRead[1].after[1].data
        /\ lastRead[1].result.stale = FALSE

\* the file of the key the last readCache read holds an entry: the bytes a
\* writeCache of that key wrote, whole
EntryOf(key) == persisted[key]

EntryExists ==
    /\ lastRead # None
    /\ lastRead[1].key \in DOMAIN persisted
    /\ lastRead[1].fileContent =
           Some(EntryText(EntryOf(lastRead[1].key).data, EntryOf(lastRead[1].key).timestamp))

EntryOlderThanTtl ==
    /\ EntryExists
    /\ lastRead[1].at - EntryOf(lastRead[1].key).timestamp > lastRead[1].maxAgeMs

NeverWritten == lastRead # None /\ lastRead[1].fileContent = None

\* C14: readCache on a key that was never written returns data = null,
\* stale = false and timestamp = null, for every maxAgeMs (the result of
\* utils/cache.ts has the first two fields only).
C14_MissIsNullNotStale ==
    NeverWritten =>
        IF lastRead[1].options = "none"
        THEN lastRead[1].result = [data |-> JNull, stale |-> FALSE, timestamp |-> JNull]
        ELSE lastRead[1].result = [data |-> JNull, stale |-> FALSE]

\* a key without a file was read with maxAgeMs = 0
C14_Witness ==
    /\ NeverWritten
    /\ lastRead[1].options = "none"
    /\ lastRead[1].maxAgeMs = 0
    /\ lastRead[1].result.data = JNull /\ ~lastRead[1].result.stale

\* the bytes are a well-formed {timestamp, data} record: JSON text of an
\* object with a numeric timestamp and a data member
HasMember(v, name) == \E i \in DOMAIN v.kv : v.kv[i][1] = name

WellFormedEntry(bytes) ==
    LET r == parse(bytes)
    IN  /\ r.ok
        /\ r.v.t = "object"
        /\ HasMember(r.v, "timestamp") /\ GetProp(r.v, "timestamp").t = "number"
        /\ HasMember(r.v, "data")

\* C15: reading an entry whose stored bytes are not a well-formed
\* {timestamp, data} JSON record behaves exactly like a miss: data = null,
\* stale = false, timestamp = null (the read never throws: it always
\* settles with a result).
C15_CorruptIsMiss ==
    (/\ lastRead # None
     /\ lastRead[1].options = "none"
     /\ lastRead[1].fileContent # None
     /\ ~WellFormedEntry(lastRead[1].fileContent[1])) =>
        lastRead[1].result = [data |-> JNull, stale |-> FALSE, timestamp |-> JNull]

(***************************************************************************)
(* Claims about the callers of the cache (Spec).                           *)
(***************************************************************************)
\* getOrgMembers and the four searches, called in the current state with an
\* upstream that answers and a disk that fails: they return what they
\* fetched and leave the cache as it was
MembersSurviveWriteFailure ==
    \A listOut \in ListMembersOutcomes, profOk \in ProfileOutcomes :
        LET res == getOrgMembers(cache, TARGET_ORG, now, listOut, profOk, FALSE)
            saved == getOrgMembers(cache, TARGET_ORG, now, listOut, profOk, TRUE)
        IN  listOut.ok => /\ ~res.threw
                          /\ res.value = saved.value
                          /\ res.cache = cache

SearchesSurviveWriteFailure ==
    \A k \in KindSet, username \in Usernames, since \in SinceChoices :
        \A out \in SearchOutcomes(k, username) :
            LET res == searchUser(cache, k, TARGET_ORG, username, TARGET_REPOS, since, now,
                                  out, FALSE)
            IN  (out.ok /\ ~res.hit) => res = Returned(out.data, cache, 1, FALSE)

\* the step in which getOrgActivityData or handleGetUserDetails has all its
\* parts and goes on: it caches and answers with the fresh payload, whether
\* the cache changes or not
AggregateAnswersFresh ==
    (/\ hPc = "await" /\ hPc' # "await"
     /\ AllSearchesOk
     /\ hReq.handler = "user" => scanPc = "returned") =>
        /\ hPc' = "done"
        /\ responses' = Append(responses,
                               FreshResponse(IF hReq.handler = "org"
                                             THEN OrgActivityData(members, searches)
                                             ELSE UserPayload(hReq.username, searches[1],
                                                              scanOut.value)))

\* the step in which the drain loop of getOrgMemberCommits ends: the merged
\* list is returned
ScanReturnsMerged ==
    (scanPc = "draining" /\ scanPc' # "draining") =>
        /\ scanPc' = "returned"
        /\ scanOut'.value = allMatchingCommits

\* C16: a failure to persist a cache entry never fails the caller:
\* getOrgMembers, the search functions, getOrgMemberCommits,
\* getOrgActivityData and the user-detail handler return, or answer with,
\* the freshly fetched result when writeFile fails.
C16_WriteFailureNeverFailsCaller ==
    [][/\ MembersSurviveWriteFailure
       /\ SearchesSurviveWriteFailure
       /\ AggregateAnswersFresh
       /\ ScanReturnsMerged]_vars

\* an org-dashboard request was answered fresh although the aggregate could
\* not be written: the one fault of the run was the disk's
C16_Witness ==
    /\ Responded /\ hReq.handler = "org"
    /\ Len(responses) = 1 /\ IsFreshResponse(responses[1])
    /\ failures = 1
    /\ OrgActivityCacheKey(TARGET_ORG, TARGET_REPOS, hReq.since, hReq.until) \notin DOMAIN cache
    /\ lastFresh[hReq] # None

(***************************************************************************)
(* Claims about overlapping calls (SpecCache).                             *)
(***************************************************************************)
Clean == failures = 0 /\ tampered = 0

WritesRunning(key) == {j \in DOMAIN ops : ops[j].kind = "write" /\ ops[j].key = key}

\* a readCache that ran while writeCache calls of its key ran returns the
\* payload persisted before it began or the payload of one of those calls;
\* a miss only when nothing was persisted before
ReadSeesWholeEntry ==
    (lastRead # None /\ lastRead[1].options = "none" /\ lastRead[1].during # {}) =>
        \/ lastRead[1].prev # None /\ lastRead[1].result.data = lastRead[1].prev[1].data
        \/ \E e \in lastRead[1].during : lastRead[1].result.data = e.data
        \/ lastRead[1].prev = None /\ lastRead[1].result.data = JNull

\* when no writeCache of a key is running, its file holds the whole entry
\* of the writeCache that completed last
FileIsLastWriters ==
    \A key \in DOMAIN persisted :
        WritesRunning(key) = {} =>
            files[filePath(key)] = EntryText(persisted[key].data, persisted[key].timestamp)

\* C17: the entry stored under a key is exactly the whole {timestamp,
\* payload} of one completed writeCache: a readCache that overlaps a
\* writeCache of the same key returns the previous payload or the new one,
\* never a miss or a partial record, and after overlapping writes the entry
\* is entirely that of the last writer (on a healthy disk, with no other
\* program writing).
C17_WholeEntryOfOneWrite ==
    Clean => (ReadSeesWholeEntry /\ FileIsLastWriters)

\* C18: no operation of the system deletes a cache entry: once writeCache
\* has succeeded for a key, a later readCache of that key with maxAgeMs =
\* Infinity, running while no writeCache of the key runs, returns a
\* non-null payload with stale = false, and the payload is the one of the
\* most recent successful write (no other program touches the files).
C18_EntryNeverDeleted ==
    (/\ lastRead # None
     /\ tampered = 0
     /\ lastRead[1].options = "none"
     /\ lastRead[1].maxAgeMs = Infinity
     /\ lastRead[1].prev # None
     /\ lastRead[1].during = {}) =>
        /\ lastRead[1].result.data # JNull
        /\ lastRead[1].result.stale = FALSE
        /\ lastRead[1].result.data = persisted[lastRead[1].key].data

(***************************************************************************)
(* SpecFn: the key derivations and handleOctokitError applied to drawn     *)
(* arguments.  The arguments are drawn at the start; one step applies the  *)
(* function.                                                               *)
(***************************************************************************)
RepoNames == {"a", "b", "web"}

\* the lists that hold each repository of S once
Orderings(S) ==
    {xs \in [1..Cardinality(S) -> S] : \A i, j \in 1..Cardinality(S) : xs[i] = xs[j] => i = j}

\* the same org, since and until with one repository list in two orders
KeyArgs ==
    {[fn |-> "keys", repos |-> xs, reordered |-> ys, since |-> since, until |-> until] :
        xs \in UNION {Orderings(S) : S \in SUBSET RepoNames},
        ys \in UNION {Orderings(S) : S \in SUBSET RepoNames},
        since \in SinceChoices,
        until \in {Undefined, "2024-02-01T00:00:00.000Z"}}

SameRepos(xs, ys) == {xs[i] : i \in DOMAIN xs} = {ys[i] : i \in DOMAIN ys}

\* the three keys of the org aggregate: getOrgActivityData,
\* getOrgMemberCommits, handleGetOrgDashboard
OrgAggregateKeys(repos, since, until) ==
    [activity  |-> OrgActivityCacheKey(TARGET_ORG, repos, since, until),
     commits   |-> CommitsCacheKey(TARGET_ORG, repos, since, until),
     dashboard |-> OrgDashboardCacheKey(repos, since, until)]

\* errors Octokit raises: u is the URL the x-github-sso header was built
\* with, None when the header has another form
SsoUrls == {"https://sso.example/orgname", "u"}

SsoHeaders ==
    {[header |-> "required; url=" \o u, u |-> Some(u)] : u \in SsoUrls}
    \cup {[header |-> h, u |-> None] : h \in {Undefined, "required", "required; url=", "optional; url=u"}}

\* the x-ratelimit-reset header with the epoch seconds it was built with
ResetHeaders ==
    {[header |-> Undefined, seconds |-> None],
     [header |-> "1700", seconds |-> Some(1700)],
     [header |-> "0", seconds |-> Some(0)]}

ErrorArgs ==
    {[fn |-> "error", u |-> sso.u, seconds |-> reset.seconds,
      error |-> [RequestError(status,
                              [sso |-> sso.header, remaining |-> remaining,
                               reset |-> reset.header],
                              "Forbidden", dataMessage)
                 EXCEPT !.name = name]] :
        status \in {401, 403, 404, 429, 500},
        sso \in SsoHeaders,
        remaining \in {Undefined, "0", "1"},
        reset \in ResetHeaders,
        dataMessage \in {Undefined, "API rate limit exceeded"},
        name \in {"HttpError", "Error"}}

DeriveKeys ==
    /\ fnIn.fn = "keys"
    /\ fnOut = None
    /\ fnOut' = Some([first  |-> OrgAggregateKeys(fnIn.repos, fnIn.since, fnIn.until),
                      second |-> OrgAggregateKeys(fnIn.reordered, fnIn.since, fnIn.until)])
    /\ UNCHANGED <<now, ticks, cache, calls, failures, scanVars, handlerVars, fileVars, fnIn>>

Classify ==
    /\ fnIn.fn = "error"
    /\ fnOut = None
    /\ fnOut' = Some(handleOctokitError(fnIn.error))
    /\ UNCHANGED <<now, ticks, cache, calls, failures, scanVars, handlerVars, fileVars, fnIn>>

\* getOrgMembers: the members cache it finds (no entry, a fresh one, one past
\* its TTL), the members listMembers returns, the profile lookups that
\* succeed and whether the cache file can be written
CachedMembers == <<[login |-> "Zed", name |-> Null]>>

MembersCaches ==
    {EmptyCache,
     writeCache(EmptyCache, MembersCacheKey(TARGET_ORG), CachedMembers, 0, TRUE),
     writeCache(EmptyCache, MembersCacheKey(TARGET_ORG), CachedMembers,
                0 - (MEMBERS_CACHE_TTL + 1), TRUE)}

MembersArgs ==
    {[fn |-> "members", c |-> c, listOut |-> listOut, profOk |-> profOk, diskOk |-> diskOk] :
        c \in MembersCaches,
        listOut \in {UpOk(SubSeq(MemberPool, 1, n)) : n \in 0..Len(MemberPool)}
                        \cup {UpFail(ErrSso)},
        profOk \in [1..Len(MemberPool) -> BOOLEAN],
        diskOk \in DiskOutcomes}

ListMembers ==
    /\ fnIn.fn = "members"
    /\ fnOut = None
    /\ fnOut' = Some(getOrgMembers(fnIn.c, TARGET_ORG, now, fnIn.listOut, fnIn.profOk,
                                   fnIn.diskOk))
    /\ UNCHANGED <<now, ticks, cache, calls, failures, scanVars, handlerVars, fileVars, fnIn>>

\* two calls of getOrgActivityData and of getOrgMemberCommits: p and q are
\* their parameters
KeyParams ==
    {[repos |-> repos, since |-> since, until |-> until] :
        repos \in {<<>>, <<"a">>, <<"a", "b">>, <<"a_b">>},
        since \in {Undefined, "2024-01-01T00:00:00.000Z", "2024-01-01T12:00:00.000Z",
                   "2024-01-02T00:00:00.000Z"},
        until \in {Undefined, "2024-02-01T00:00:00.000Z"}}

KeyPairArgs == {[fn |-> "keypair", p |-> p, q |-> q] : p \in KeyParams, q \in KeyParams}

DeriveKeyPair ==
    /\ fnIn.fn = "keypair"
    /\ fnOut = None
    /\ fnOut' = Some([p |-> OrgAggregateKeys(fnIn.p.repos, fnIn.p.since, fnIn.p.until),
                      q |-> OrgAggregateKeys(fnIn.q.repos, fnIn.q.since, fnIn.q.until)])
    /\ UNCHANGED <<now, ticks, cache, calls, failures, scanVars, handlerVars, fileVars, fnIn>>

\* fetchCommitsForRepo: the repository and the member logins
RepoArgs ==
    {[fn |-> "repo", repo |-> repo, logins |-> logins] :
        repo \in {"a", "b", "big", "full", "full2", "e"}, logins \in {{}, {"al"}, {"al", "bo"}}}

FetchRepo ==
    /\ fnIn.fn = "repo"
    /\ fnOut = None
    /\ fnOut' = Some(fetchCommitsForRepo(StartFetch(NewFetch), fnIn.repo, fnIn.logins, <<>>))
    /\ UNCHANGED <<now, ticks, cache, calls, failures, scanVars, handlerVars, fileVars, fnIn>>

FnInit ==
    /\ InitCommon /\ InitScan /\ InitHandler /\ InitFile
    /\ TARGET_REPOS = <<>>
    /\ fnIn \in {k \in KeyArgs : SameRepos(k.repos, k.reordered)} \cup ErrorArgs \cup MembersArgs
                 \cup RepoArgs \cup KeyPairArgs
    /\ fnOut = None

FnNext == DeriveKeys \/ Classify \/ ListMembers \/ FetchRepo \/ DeriveKeyPair

SpecFn == FnInit /\ [][FnNext]_vars

\* C19: for identical org, since and until, every cache key derived for
\* the org aggregate (getOrgActivityData, getOrgMemberCommits, the
\* dashboard handler) is the same for any two orders of one repo list.
C19_KeyOrderIndependent ==
    (fnOut # None /\ fnIn.fn = "keys") => fnOut[1].first = fnOut[1].second

\* a RequestError with status 403 whose x-github-sso header is
\* 'required; url=U' was classified
SsoFormClassified ==
    /\ fnOut # None
    /\ fnIn.fn = "error"
    /\ fnIn.error.name = "HttpError"
    /\ fnIn.error.status = 403
    /\ fnIn.u # None

\* C20: for every upstream error with status 403 whose x-github-sso header
\* has the form 'required; url=U', handleOctokitError signals a
\* SamlSsoError with ssoUrl = U, also when x-ratelimit-remaining is '0'.
C20_SsoRuleFirst ==
    SsoFormClassified => fnOut[1] = SamlSsoError(SsoMessage, fnIn.u[1])

\* an error that carries the SSO header and x-ratelimit-remaining '0' was
\* classified as SamlSsoError
C20_Witness ==
    /\ SsoFormClassified
    /\ fnIn.error.headers.remaining = "0"
    /\ fnOut[1].name = "SamlSsoError"
    /\ fnOut[1].ssoUrl = fnIn.u[1]

\* a RequestError with status 403 that does not match the SSO rule and
\* carries x-ratelimit-remaining '0' was classified
RateLimitFormClassified ==
    /\ fnOut # None
    /\ fnIn.fn = "error"
    /\ fnIn.error.name = "HttpError"
    /\ fnIn.error.status = 403
    /\ fnIn.u = None
    /\ fnIn.error.headers.remaining = "0"

\* C21: for every upstream error with status 403 that does not match the
\* SSO rule and whose x-ratelimit-remaining header equals '0',
\* handleOctokitError signals a RateLimitError whose resetTimestamp is the
\* x-ratelimit-reset header value (epoch seconds) times 1000 (null when
\* there is no such header).
C21_RateLimitReset ==
    RateLimitFormClassified =>
        /\ fnOut[1].name = "RateLimitError"
        /\ fnOut[1].status = 429
        /\ fnOut[1].resetTimestamp = IF fnIn.seconds = None THEN NullNum
                                     ELSE fnIn.seconds[1] * 1000

\* a rate-limited error with reset header '1700' came out with 1700000
C21_Witness ==
    /\ RateLimitFormClassified
    /\ fnIn.seconds = Some(1700)
    /\ fnOut[1].name = "RateLimitError"
    /\ fnOut[1].resetTimestamp = 1700000

\* C22: an upstream error with status 429 whose x-ratelimit-remaining
\* header is '0' is classified as RateLimitError with the reset time from
\* x-ratelimit-reset, not left as it is.
C22_RateLimitAppliesTo429 ==
    (/\ fnOut # None
     /\ fnIn.fn = "error"
     /\ fnIn.error.name = "HttpError"
     /\ fnIn.error.status = 429
     /\ fnIn.error.headers.remaining = "0") =>
        /\ fnOut[1].name = "RateLimitError"
        /\ fnOut[1].resetTimestamp = IF fnIn.seconds = None THEN NullNum
                                     ELSE fnIn.seconds[1] * 1000

\* a repository task that has collected one page when listCommits fails
FetchWithPages == [StartFetch(NewFetch) EXCEPT !.repoCommits = <<"c1">>]

AggregateKeys ==
    {OrgActivityCacheKey(TARGET_ORG, TARGET_REPOS, s, u) : s \in SinceChoices, u \in UntilChoices}

\* the summary of the four searches for login
SummaryOf(login) ==
    [commitCount        |-> Len(SearchResults("commits", login)),
     prAuthoredCount    |-> Len(SearchResults("prs_authored", login)),
     issueAuthoredCount |-> Len(SearchResults("issues_authored", login)),
     prCommentCount     |-> Len(SearchResults("pr_comments", login))]

\* every member has its summary under its lowercased login, and every key
\* is the lowercased login of a member
MembersHaveSummaries(d) ==
    /\ \A i \in 1..Len(d.members) :
         LET loginLower == toLowerCase(d.members[i].login)
         IN  /\ loginLower \in DOMAIN d.activityByUser
             /\ d.activityByUser[loginLower] = SummaryOf(d.members[i].login)
             /\ \A f \in DOMAIN d.activityByUser[loginLower] :
                    d.activityByUser[loginLower][f] \in Nat
    /\ \A key \in DOMAIN d.activityByUser :
         \E i \in 1..Len(d.members) : key = toLowerCase(d.members[i].login)

SearchRejected ==
    /\ hReq.handler = "org"
    /\ \E i \in DOMAIN searches : \E k \in KindSet : searches[i][k].error # NoError

\* C25: if one of the four searches of a member fails, getOrgActivityData
\* fails as a whole with the classified error of that search: the handler's
\* catch block gets it, no OrgActivityData is returned and the aggregate
\* cache entry is not written.
C25_SearchFailureFailsAggregate ==
    [][SearchRejected' =>
          /\ hPc' \in {"catch", "done"}
          /\ hErrFrom' = "search"
          /\ \E i \in DOMAIN searches' : \E k \in KindSet :
                /\ searches'[i][k].st = "failed"
                /\ hErr' = searches'[i][k].error
                /\ hErr' \in {handleOctokitError(e) : e \in UpstreamErrors}
          /\ lastFresh' = lastFresh
          /\ \A key \in AggregateKeys' :
                ~EntryFresh(cache', key, ORG_ACTIVITY_CACHE_TTL, hTime')
          /\ \A n \in DOMAIN responses' : ~IsFreshResponse(responses'[n])]_vars

\* a search of member Al failed with the SSO error, the request was answered
\* with that error and the aggregate was not stored
C25_Witness ==
    /\ SearchRejected
    /\ Responded
    /\ hErr.name = "SamlSsoError"
    /\ Len(responses) = 1
    /\ responses[1].status = 403
    /\ \A key \in AggregateKeys : key \notin DOMAIN cache

(***************************************************************************)
(* Properties of getOrgMembers applied to drawn outcomes (SpecFn).         *)
(***************************************************************************)
\* getOrgMembers went to the upstream and listMembers succeeded
MembersListed ==
    /\ fnOut # None
    /\ fnIn.fn = "members"
    /\ ~EntryFresh(fnIn.c, MembersCacheKey(TARGET_ORG), MEMBERS_CACHE_TTL, now)
    /\ fnIn.listOut.ok

\* C26: in getOrgMembers a failed profile lookup does not fail the member
\* list: the member is returned with name = null, every listed member is
\* returned in order, and the list is stored in the cache (when the cache
\* file can be written).
C26_ProfileFailureDegrades ==
    MembersListed =>
        LET listed == fnIn.listOut.data
            res == fnOut[1]
        IN  /\ ~res.threw
            /\ Len(res.value) = Len(listed)
            /\ \A i \in 1..Len(listed) :
                  /\ res.value[i].login = listed[i]
                  /\ res.value[i].name = IF fnIn.profOk[i] THEN ProfileName(listed[i]) ELSE Null
            /\ fnIn.diskOk =>
                  /\ MembersCacheKey(TARGET_ORG) \in DOMAIN res.cache
                  /\ res.cache[MembersCacheKey(TARGET_ORG)].data = res.value

\* three members were listed, the lookup of the second failed, and the list
\* with its name = null was returned and cached
C26_Witness ==
    /\ MembersListed
    /\ Len(fnIn.listOut.data) = 3
    /\ fnIn.profOk = <<TRUE, FALSE, TRUE>>
    /\ ~fnOut[1].threw
    /\ fnOut[1].value[2] = [login |-> "bo", name |-> Null]
    /\ fnOut[1].value[3].name = ProfileName("Cy")
    /\ fnOut[1].cache[MembersCacheKey(TARGET_ORG)].data = fnOut[1].value

(***************************************************************************)
(* Properties of the searches across requests (Spec).                      *)
(***************************************************************************)
\* the search of kind k for the i-th login settles in this step
SearchSettles(i, k) ==
    /\ i \in DOMAIN searches /\ i \in DOMAIN searches'
    /\ searches[i][k].st = "pending"
    /\ searches'[i][k].st # "pending"

\* C27: an identical search is sent upstream at most once: a search whose
\* key already has an entry, stored by an earlier call of the same search,
\* is answered from that entry without an upstream call.
C27_IdenticalSearchSentOnce ==
    [][\A i \in DOMAIN searches : \A k \in KindSet :
          LET cacheKey == SearchKey(k, TARGET_ORG, searchUsers[i], TARGET_REPOS, hReq.since)
          IN  (SearchSettles(i, k) /\ cacheKey \in DOMAIN cache)
                  => /\ calls' = calls
                     /\ searches'[i][k].st = "ok"
                     /\ searches'[i][k].result = cache[cacheKey].data]_vars

(***************************************************************************)
(* Properties of the responses (Spec).                                     *)
(***************************************************************************)
\* the running request failed and its catch block has answered
AnsweredAfterFailure == Responded /\ hErr # NoError /\ Len(responses) = 1

\* C28: at the HTTP boundary of both endpoints a failed request is
\* answered, when there is an entry to serve, with status 200 and the stale
\* envelope; otherwise a SamlSsoError with 403, ssoRequired = true and the
\* ssoUrl, a RateLimitError with 429, rateLimitExceeded = true and the
\* resetTimestamp, and every other failure with a 5xx status and a message.
C28_HttpBoundary ==
    AnsweredAfterFailure =>
        LET r == responses[1]
        IN  IF catchEntry # None
            THEN IsStaleResponse(r)
            ELSE IF hErr.name = "SamlSsoError"
            THEN /\ r.status = 403
                 /\ r.body = [ssoRequired |-> TRUE, ssoUrl |-> hErr.ssoUrl,
                              message |-> hErr.message]
            ELSE IF hErr.name = "RateLimitError"
            THEN /\ r.status = 429
                 /\ r.body = [rateLimitExceeded |-> TRUE,
                              resetTimestamp |-> hErr.resetTimestamp,
                              message |-> hErr.message]
            ELSE /\ r.status \in 500..599
                 /\ DOMAIN r.body = {"message"}
                 /\ r.body.message # ""

\* the step belongs to the running request
SameRequest == requests' = requests

\* a search whose upstream request failed is not run again
FailedSearchStays ==
    \A i \in DOMAIN searches : \A k \in KindSet :
        searches[i][k].error # NoError => searches'[i][k] = searches[i][k]

\* a repository task that has settled is not run again
SettledFetchStays ==
    \A j \in DOMAIN fetches :
        fetches[j].st \in {"settled", "done"}
            => /\ fetches'[j].st \in {"settled", "done"}
               /\ fetches'[j].page = fetches[j].page
               /\ fetches'[j].result = fetches[j].result

\* once the member fetch has failed nothing more is requested
FailedMembersFetchStays == hErrFrom = "members" => calls' = calls

\* the catch block reads the handler's entry whatever its age, answers once
\* and issues no upstream request (the step of another writer aside)
CatchOnlyReads ==
    (hPc = "catch" /\ foreignWrites' = foreignWrites /\ now' = now) =>
        /\ hPc' = "done"
        /\ calls' = calls
        /\ cache' = cache
        /\ Len(responses') = Len(responses) + 1
        /\ IsStaleResponse(responses'[Len(responses')])
              <=> HandlerKey(hReq, TARGET_REPOS) \in DOMAIN cache

\* a request that failed and was answered is not started over
AnsweredStays == (hPc = "done" /\ hErr # NoError) => (hPc' = "done" /\ hErr' = hErr)

\* C29: there is no retry: within one invocation of a handler an upstream
\* request that failed is never issued again, and after the fetch failed
\* the handler only reads its cache entry with maxAgeMs = Infinity and
\* answers.
C29_NoRetry ==
    [][SameRequest =>
          /\ FailedSearchStays
          /\ SettledFetchStays
          /\ FailedMembersFetchStays
          /\ CatchOnlyReads
          /\ AnsweredStays]_vars

\* a search failed at its only upstream request and the handler answered
\* with the entry it read in its catch block
C29_Witness ==
    /\ Responded
    /\ hErrFrom = "search"
    /\ calls = 1
    /\ \E i \in DOMAIN searches : \E k \in KindSet : searches[i][k].st = "failed"
    /\ Len(responses) = 1
    /\ IsStaleResponse(responses[1])
    /\ catchEntry # None
    /\ Payload(responses[1].body) = Payload(catchEntry[1].data)

(***************************************************************************)
(* Properties of the scan's queue (SpecScan).                              *)
(***************************************************************************)
\* the tasks whose fetch has started and whose .finally has not run
OccupyingTasks == {i \in DOMAIN fetches : fetches[i].st \in {"inflight", "settled"}}

\* the .finally of a task runs in this step
FinallyRuns ==
    \E i \in DOMAIN fetches : fetches[i].st = "settled" /\ fetches'[i].st = "done"

\* C30: the scan is work-conserving: while repositories are queued exactly
\* 5 fetches are in flight, and the step in which a fetch completes while
\* repositories remain queued starts the next queued repository.
C30_WorkConserving ==
    [][/\ (scanPc' = "draining" /\ Len(repoQueue') > 0)
             => Cardinality(OccupyingTasks') = MAX_CONCURRENT_REPO_FETCHES
       /\ (FinallyRuns /\ Len(repoQueue) > 0)
             => /\ repoQueue' = Tail(repoQueue)
                /\ \E i \in DOMAIN fetches :
                      fetches[i].st = "queued" /\ fetches'[i].st = "inflight"]_vars
(***************************************************************************)
(* Properties of the repository scan, continued (SpecScan).                *)
(***************************************************************************)
\* the commits of the repository at position i that have an author whose
\* login, lowercased, is a member's
AuthoredByMember(i) ==
    LET all == RepoCommits(scanArgs.targetRepos[i])
    IN  SelectSeq(all, LAMBDA c : c.author # NoAuthor /\ toLowerCase(c.author) \in memberLogins)

RECURSIVE AuthoredByMemberIn(_)
AuthoredByMemberIn(idxs) ==
    IF idxs = {} THEN <<>>
    ELSE LET i == CHOOSE j \in idxs : \A k \in idxs : j <= k
         IN  AuthoredByMember(i) \o AuthoredByMemberIn(idxs \ {i})

\* C31: the list a scan returns equals, as a multiset, the union over the
\* repositories whose fetch succeeded of the commits whose author login,
\* lowercased, is in memberLogins (commits without an author excluded),
\* whatever the order in which the fetches completed.
C31_ScanIsMultisetOfMatches ==
    ScanReturnedFresh =>
        BagOfSeq(scanOut.value) = BagOfSeq(AuthoredByMemberIn(ResolvedTasks))

\* a scan returned the matching commits in an order other than that of the
\* repository list: a fetch started later completed first
C31_Witness ==
    /\ ScanReturnedFresh
    /\ Len(scanOut.value) > 2
    /\ scanOut.value # AuthoredByMemberIn(ResolvedTasks)
    /\ BagOfSeq(scanOut.value) = BagOfSeq(AuthoredByMemberIn(ResolvedTasks))
    /\ \E i \in ResolvedTasks : \E n \in DOMAIN RepoCommits(scanArgs.targetRepos[i]) :
          RepoCommits(scanArgs.targetRepos[i])[n].author = NoAuthor

(***************************************************************************)
(* Properties of fetchCommitsForRepo applied to drawn repositories         *)
(* (SpecFn).                                                               *)
(***************************************************************************)
\* C32: fetchCommitsForRepo requests pages 1, 2, 3, ... of size 100 in
\* order and stops after the first page with fewer than 100 items (or
\* none): a repository of n commits takes n \div 100 + 1 requests, so
\* 100 * k commits take k + 1 and fewer than 100 take one.
C32_PagesUntilShortPage ==
    (fnOut # None /\ fnIn.fn = "repo") =>
        LET n == Len(RepoCommits(fnIn.repo))
            pages == fnOut[1].pages
        IN  /\ per_page = 100
            /\ Len(pages) = n \div 100 + 1
            /\ \A p \in DOMAIN pages : pages[p] = p
            /\ \A p \in DOMAIN pages :
                  (p < Len(pages)) <=> (Len(ListCommitsPage(fnIn.repo, p)) = 100)
            /\ fnOut[1].task.st = "settled"

\* the repository of exactly 200 commits took three requests, the third
\* answered with an empty page
C32_Witness ==
    /\ fnOut # None
    /\ fnIn.fn = "repo"
    /\ fnIn.repo = "full2"
    /\ fnOut[1].pages = <<1, 2, 3>>
    /\ Len(ListCommitsPage("full2", 3)) = 0
    /\ fnIn.logins = {"al"}
    /\ Len(fnOut[1].task.result[1]) = 1

(***************************************************************************)
(* Properties of handleOctokitError, continued (SpecFn).                   *)
(***************************************************************************)
\* an error Octokit raised that matches neither the SSO rule nor the
\* rate-limit rule was classified
UnclassifiedFormClassified ==
    /\ fnOut # None
    /\ fnIn.fn = "error"
    /\ ~(fnIn.error.name = "HttpError" /\ fnIn.error.status = 403 /\ fnIn.u # None)
    /\ ~(fnIn.error.name = "HttpError" /\ fnIn.error.status \in {403, 429}
         /\ fnIn.error.headers.remaining = "0")

\* C33: for an upstream error that matches neither the SSO rule nor the
\* rate-limit rule, handleOctokitError signals a new generic error with the
\* not-found message when the error is a RequestError of status 404, and
\* otherwise the original error unchanged (same message, status, headers).
C33_NotFoundOrOriginal ==
    UnclassifiedFormClassified =>
        IF fnIn.error.name = "HttpError" /\ fnIn.error.status = 404
        THEN /\ fnOut[1].name = "Error"
             /\ fnOut[1].message = NotFoundMessage
             /\ fnOut[1].status = NoStatus
        ELSE fnOut[1] = fnIn.error

\* a 404 came out as the not-found error
C33_Witness ==
    /\ UnclassifiedFormClassified
    /\ fnIn.error.name = "HttpError"
    /\ fnIn.error.status = 404
    /\ fnOut[1] = PlainError(NotFoundMessage)
    /\ fnOut[1] # fnIn.error


(***************************************************************************)
(* Properties of the cache keys (SpecFn).                                  *)
(***************************************************************************)
\* the keys of two calls were derived
KeyPairDerived == fnOut # None /\ fnIn.fn = "keypair"

\* the repositories of both calls are the same set
SameRepoSet == SameRepos(fnIn.p.repos, fnIn.q.repos)

\* C34: cache keys are collision-free: two calls of getOrgActivityData
\* whose repo set or since differ, and two calls of getOrgMemberCommits
\* whose repo set, since or until differ, never derive the same key.
C34_KeysCollisionFree ==
    KeyPairDerived =>
        /\ (~SameRepoSet \/ fnIn.p.since # fnIn.q.since)
              => fnOut[1].p.activity # fnOut[1].q.activity
        /\ (~SameRepoSet \/ fnIn.p.since # fnIn.q.since \/ fnIn.p.until # fnIn.q.until)
              => fnOut[1].p.commits # fnOut[1].q.commits

(***************************************************************************)
(* The counter of the scan (SpecScan).                                     *)
(***************************************************************************)
\* C35: at every step of a scan activeFetches is non-negative and equals the
\* number of per-repo fetches in flight (started, .finally not yet run), so
\* that the drain loop ends once the last fetch has completed.
C35_CounterMatchesInFlight ==
    scanPc \in {"draining", "returned", "threw"}
        => /\ activeFetches >= 0
           /\ activeFetches = Cardinality(OccupyingTasks)

(***************************************************************************)
(* The queue of the scan (SpecScan).                                       *)
(***************************************************************************)
\* the number of entries of the repo list that were dequeued
Dequeued == Len(scanArgs.targetRepos) - Len(repoQueue)

ScanRunning == scanPc = "draining" \/ ScanReturnedFresh

\* the queue is what is left of the repo list, and the tasks that left the
\* state "queued" are those of the entries dequeued
DequeuedInOrder ==
    /\ Len(fetches) = Len(scanArgs.targetRepos)
    /\ Dequeued \in 0..Len(scanArgs.targetRepos)
    /\ repoQueue = SubSeq(scanArgs.targetRepos, Dequeued + 1, Len(scanArgs.targetRepos))
    /\ \A i \in DOMAIN fetches : fetches[i].st = "queued" <=> i > Dequeued

\* the tasks for which fetchCommitsForRepo was started
StartedTasks == {i \in DOMAIN fetches : fetches[i].st \in {"inflight", "settled", "done"}}

\* the tasks that this step takes from the queue, and those it starts
DequeuedNow == {i \in DOMAIN fetches \cap DOMAIN fetches' :
                   fetches[i].st = "queued" /\ fetches'[i].st # "queued"}

StartedNow == {i \in DOMAIN fetches \cap DOMAIN fetches' :
                  fetches[i].st # "inflight" /\ fetches'[i].st = "inflight"}

\* no task returns to the queue or is started again
NeverAgain ==
    scanPc = "draining" =>
        \A i \in DOMAIN fetches :
            /\ fetches[i].st # "queued" => fetches'[i].st # "queued"
            /\ fetches[i].st \in {"settled", "done", "skipped"} => fetches'[i].st # "inflight"
            /\ fetches[i].st = "skipped" => fetches'[i] = fetches[i]

ScanKey(args) == CommitsCacheKey(args.org, args.targetRepos, args.since, args.until)

\* the drain loop ends in this step
DrainEnds == scanPc = "draining" /\ scanPc' = "returned"

\* getOrgMemberCommits is called in this step
ScanCalled == ScanIdle /\ reposHanded' > reposHanded

\* the scan that drains writes the list it returns under its key, with the
\* time of the write, unless the file system refuses the write
DrainWritesEntry ==
    DrainEnds =>
        /\ scanOut'.value = allMatchingCommits
        /\ \/ /\ ScanKey(scanArgs) \in DOMAIN cache'
              /\ cache'[ScanKey(scanArgs)] = [timestamp |-> now, data |-> scanOut'.value]
              /\ failures' = failures
           \/ /\ cache' = cache
              /\ failures' = failures + 1

\* only the end of the drain loop changes an entry of a scan
ScanEntriesStay ==
    ~DrainEnds =>
        \A k \in DOMAIN cache : k # MembersCacheKey(TARGET_ORG)
            => k \in DOMAIN cache' /\ cache'[k] = cache[k]

\* a call that finds the entry of its key not older than the TTL returns the
\* entry's list and sends nothing upstream
CallWithinTtlHits ==
    (ScanCalled /\ ScanKey(scanArgs') \in DOMAIN cache
     /\ now - cache[ScanKey(scanArgs')].timestamp <= COMMITS_CACHE_TTL)
        => /\ scanPc' = "returned"
           /\ scanOut' = [NoScanOut EXCEPT !.value = cache[ScanKey(scanArgs')].data, !.hit = TRUE]
           /\ calls' = 0
           /\ fetches' = <<>>
           /\ cache' = cache

\* C37: getOrgMemberCommits writes the entry of the scan after every scan
\* that drains, also when repositories failed, and a later call with the same
\* parameters within the 15-minute TTL returns that same list as a fresh hit
\* without an upstream request.
C37_PartialScanCachedAndServed ==
    [][DrainWritesEntry /\ ScanEntriesStay /\ CallWithinTtlHits]_vars

\* the matching commits of all repositories of the list repos, for the
\* members in the entry of getOrgMembers
RECURSIVE AllMatchingOf(_, _)
AllMatchingOf(repos, logins) ==
    IF repos = <<>> THEN <<>>
    ELSE pageMemberCommits(RepoCommits(Head(repos)), logins) \o AllMatchingOf(Tail(repos), logins)

CachedLogins ==
    LET entry == cache[MembersCacheKey(TARGET_ORG)]
    IN  {toLowerCase(entry.data[i].login) : i \in DOMAIN entry.data}

\* C37 witness: a call was answered, 15 minutes after the write, from the
\* entry of a scan in which a repository failed: the list has commits, but
\* fewer than the repositories hold for the members.
C37_Witness ==
    /\ scanPc = "returned"
    /\ scanOut.hit
    /\ calls = 0
    /\ failures > 0
    /\ now - cache[ScanKey(scanArgs)].timestamp = COMMITS_CACHE_TTL
    /\ scanOut.value = cache[ScanKey(scanArgs)].data
    /\ MembersCacheKey(TARGET_ORG) \in DOMAIN cache
    /\ Len(scanOut.value) > 0
    /\ Len(scanOut.value) < Len(AllMatchingOf(scanArgs.targetRepos, CachedLogins))

(***************************************************************************)
(* The entry of a handler whose fetch failed (Spec).                       *)
(***************************************************************************)
\* the entry under key is the same before and after the step
EntryUntouched(key) ==
    IF key \in DOMAIN cache THEN key \in DOMAIN cache' /\ cache'[key] = cache[key]
    ELSE key \notin DOMAIN cache'

\* every write stamps the entry with the time of the write
WritesStampNow ==
    \A k \in DOMAIN cache' :
        (k \notin DOMAIN cache \/ cache'[k] # cache[k]) => cache'[k].timestamp = now

\* from the step in which the fetch fails to the response and after it, no
\* step of the program touches the entry under the key of the handler
FailedRequestKeepsEntry ==
    (SameRequest /\ hErr' # NoError /\ foreignWrites' = foreignWrites)
        => EntryUntouched(HandlerKey(hReq, TARGET_REPOS))

\* the stale response carries the payload and the timestamp of the entry
StaleCarriesWriteTime ==
    (hPc = "catch" /\ hPc' = "done" /\ HandlerKey(hReq, TARGET_REPOS) \in DOMAIN cache)
        => LET entry == cache[HandlerKey(hReq, TARGET_REPOS)]
               r == responses'[Len(responses')]
           IN  /\ IsStaleResponse(r)
               /\ Payload(r.body) = Payload(entry.data)
               /\ r.body.timestamp = entry.timestamp
               /\ r.body.error.timestamp = entry.timestamp
               /\ cache' = cache

\* C38: when the fresh fetch of a handler fails, the entry under the key of
\* the handler is left unchanged, whether stale data is served or the error
\* is propagated: payload and timestamp remain those of the last write, and
\* the timestamp in the stale response is the time of that write.
C38_FailureLeavesEntry ==
    [][WritesStampNow /\ FailedRequestKeepsEntry /\ StaleCarriesWriteTime]_vars

\* C38 witness: a failed request was answered with stale data from an entry
\* written while its fetch was running and aged since, and the entry still
\* has the payload and the timestamp of the write.
C38_Witness ==
    /\ Responded
    /\ hErr # NoError
    /\ ~Quiescent
    /\ now > hTime
    /\ Len(responses) = 1
    /\ IsStaleResponse(responses[1])
    /\ responses[1].body.timestamp = hTime
    /\ HandlerKey(hReq, TARGET_REPOS) \in DOMAIN cache
    /\ cache[HandlerKey(hReq, TARGET_REPOS)].timestamp = responses[1].body.timestamp
    /\ Payload(cache[HandlerKey(hReq, TARGET_REPOS)].data) = Payload(responses[1].body)
====
